---- MODULE Spec2Model ----
(***************************************************************************)
(* A model of the CNAB study-question tools: the answer grading engine     *)
(* (GUI/src/quiz_core.py, GUI/quiz_core.py, quiz.py) and the document      *)
(* parser, the build and the question store of build_db.py, with the       *)
(* sampler load_random_questions that reads the store.                     *)
(*                                                                         *)
(* A Python str is a sequence of one-character strings; Python's None is   *)
(* the value None below, which is not a sequence of characters.            *)
(***************************************************************************)
EXTENDS Integers, Sequences, FiniteSets, TLC

VARIABLES
    user_answer,     \* the answer handed to is_correct
    qa,              \* the QA record handed to is_correct
    case_sensitive,  \* the case_sensitive flag handed to is_correct
    grader,          \* which is_correct ran: "none", "core", "cli", "gui"
    verdict,         \* the boolean it returned
    error,           \* the exception it raised, "none" when it returned
    paras,           \* build_db.py: the text of the paragraphs of the document
    questions,       \* build_db.py: the list parse_docx returned
    build_pc,        \* build_db.py: "start", then "parsed"; "exit" after main
    db,              \* the SQLite file: file, table and the rows of questions
    op,              \* the last operation on the store, "none" at first
    requested,       \* the count it was called with (load_random_questions)
    raised,          \* the exception it raised, "none" when it returned
    message,         \* the message of that exception: its text and the numbers
                     \* formatted into it
    loaded,          \* the list load_random_questions returned
    latest,          \* history: the record of the last upsert of each qnum
    seed,            \* the seed it was called with (load_random_questions)
    chosen,          \* the list rng.sample returned in it
    rng,             \* random.Random: what sample returns for each integer seed
    sampled,         \* history: the seeded calls that returned since the rows of
                     \* the store last changed
    replay,          \* history: the last call repeated one of them (same seed,
                     \* same count)
    options,         \* the list extract_mc_options returned
    extractor,       \* which extract_mc_options ran: "none", "core", "gui"
    page,            \* MainWindow.stack: the page shown, "start", "quiz", "results"
    _qas,            \* MainWindow._qas: the questions of the round
    _idx,            \* MainWindow._idx: the 0-based position in _qas
    _results,        \* MainWindow._results: one entry per graded answer
    _case_sensitive, \* MainWindow._case_sensitive
    round_list,      \* QuizPage.round_list: the items append_result added
    _current_qa,     \* QuizPage._current_qa
    _mode,           \* QuizPage._mode: "text", "mc" or "mc_multi"
    checked,         \* the positions of the option widgets that are checked
    typed,           \* the text of QuizPage._text_input
    widgets_enabled, \* whether the answer widgets are enabled
    submit_enabled,  \* QuizPage.submit_btn.isEnabled()
    timers,          \* the QTimer.singleShot calls not yet run, oldest first
    slot_error,      \* the exception a slot or timer callback raised last
    stale_ran        \* history: a timer callback ran after back_to_start
                     \* ended the round that started it

store_vars == <<db, op, requested, raised, message, loaded, latest,
                seed, chosen, rng, sampled, replay>>

window_vars == <<page, _qas, _idx, _results, _case_sensitive, round_list,
                 _current_qa, _mode, checked, typed, widgets_enabled,
                 submit_enabled, timers, slot_error, stale_ran>>

gui_vars == <<options, extractor, window_vars>>

vars == <<user_answer, qa, case_sensitive, grader, verdict, error,
          paras, questions, build_pc, db, op, requested, raised, message, loaded,
          latest, seed, chosen, rng, sampled, replay, options, extractor,
          window_vars>>

(***************************************************************************)
(* Python values and the str methods the code uses                         *)
(***************************************************************************)
None == <<"None">>

\* "abc" as a Python str: <<"a", "b", "c">>
Chars(s) == [i \in 1..Len(s) |-> SubSeq(s, i, i)]

EmptyStr == <<>>

LowerLetters == Chars("abcdefghijklmnopqrstuvwxyz")
UpperLetters == Chars("ABCDEFGHIJKLMNOPQRSTUVWXYZ")
Digits == Chars("0123456789")

Range(f) == {f[i] : i \in DOMAIN f}

\* str.isspace of one character: what str.strip() removes and \s matches
SpaceSet == {" ", "\t", "\n", "\r"}

IsSpace(c) == c \in SpaceSet

LowerSet == Range(LowerLetters)
UpperSet == Range(UpperLetters)
DigitSet == Range(Digits)

IsLower(c) == c \in LowerSet
IsUpper(c) == c \in UpperSet
IsAlpha(c) == IsLower(c) \/ IsUpper(c)
IsDigit(c) == c \in DigitSet

\* a word character of the re module: \w
IsWord(c) == IsAlpha(c) \/ IsDigit(c) \/ c = "_"

\* the upper-case form of each lower-case letter, and the reverse
UpperOf == [c \in LowerSet |-> UpperLetters[CHOOSE i \in DOMAIN LowerLetters : LowerLetters[i] = c]]
LowerOf == [c \in UpperSet |-> LowerLetters[CHOOSE i \in DOMAIN UpperLetters : UpperLetters[i] = c]]

ToUpper(c) == IF IsLower(c) THEN UpperOf[c] ELSE c
ToLower(c) == IF IsUpper(c) THEN LowerOf[c] ELSE c

\* str.upper(), str.lower()
upper(s) == [i \in 1..Len(s) |-> ToUpper(s[i])]
lower(s) == [i \in 1..Len(s) |-> ToLower(s[i])]

\* str.strip(): leading and trailing whitespace removed
strip(s) ==
    LET n == Len(s)
        lead == CHOOSE k \in 0..n :
                    /\ \A i \in 1..k : IsSpace(s[i])
                    /\ k = n \/ ~IsSpace(s[k + 1])
        trail == CHOOSE k \in 0..n :
                    /\ \A i \in (n - k + 1)..n : IsSpace(s[i])
                    /\ k = n \/ ~IsSpace(s[n - k])
    IN  IF lead = n THEN EmptyStr ELSE SubSeq(s, lead + 1, n - trail)

\* str.isalpha(): non-empty and every character a letter
isalpha(s) == Len(s) > 0 /\ \A i \in 1..Len(s) : IsAlpha(s[i])

\* Python truthiness of an Optional[str]: None and "" are false
Truthy(s) == s # None /\ s # EmptyStr

\* (s or "")
OrEmpty(s) == IF Truthy(s) THEN s ELSE EmptyStr

\* sub in s
Contains(s, sub) ==
    \E i \in 0..(Len(s) - Len(sub)) : SubSeq(s, i + 1, i + Len(sub)) = sub

\* re.sub(r"\s+", " ", s): every run of whitespace becomes one space
RECURSIVE CollapseSpace(_)
CollapseSpace(s) ==
    IF s = EmptyStr THEN EmptyStr
    ELSE IF IsSpace(Head(s))
         THEN IF Len(s) > 1 /\ IsSpace(s[2])
              THEN CollapseSpace(Tail(s))
              ELSE <<" ">> \o CollapseSpace(Tail(s))
         ELSE <<Head(s)>> \o CollapseSpace(Tail(s))

\* s.split(","): the pieces between the commas, count(",") + 1 of them
RECURSIVE SplitComma(_)
SplitComma(s) ==
    LET commas == {i \in 1..Len(s) : s[i] = ","}
        c == CHOOSE i \in commas : \A j \in commas : i <= j
    IN  IF commas = {} THEN <<s>>
        ELSE <<SubSeq(s, 1, c - 1)>> \o SplitComma(SubSeq(s, c + 1, Len(s)))

\* \b of the re module at offset p of s (between s[p] and s[p+1])
WordBoundary(s, p) ==
    LET before == p >= 1 /\ IsWord(s[p])
        after == p + 1 <= Len(s) /\ IsWord(s[p + 1])
    IN  before # after

\* re.search(rf"\b{re.escape(pat)}\b", s) is not None, scanning the start
\* offsets from the left as the regex engine does
RECURSIVE SearchFrom(_, _, _)
SearchFrom(pat, s, p) ==
    IF p + Len(pat) > Len(s) THEN FALSE
    ELSE IF /\ WordBoundary(s, p)
            /\ SubSeq(s, p + 1, p + Len(pat)) = pat
            /\ WordBoundary(s, p + Len(pat))
         THEN TRUE
         ELSE SearchFrom(pat, s, p + 1)

word_search(pat, s) == SearchFrom(pat, s, 0)

(***************************************************************************)
(* GUI/src/quiz_core.py                                                    *)
(***************************************************************************)
normalize(s) == lower(CollapseSpace(strip(OrEmpty(s))))

_split_csv_list(s) ==
    LET pieces == SplitComma(OrEmpty(s))
    IN  SelectSeq([i \in 1..Len(pieces) |-> strip(pieces[i])], LAMBDA p : p # EmptyStr)

\* what a call of is_correct does: return a boolean, or raise
Return(b) == [exc |-> "none", val |-> b]
Raise(e) == [exc |-> e, val |-> FALSE]

\* a variant of option_branch that also accepts the spelled-out answer_value, as
\* the older graders do
option_branch_or_value(ua, q) ==
    \/ upper(ua) = upper(strip(q.answer_option))
    \/ Truthy(q.answer_value) /\ normalize(ua) = normalize(q.answer_value)

\* a variant of option_branch that compares the first characters only
option_branch_first_letter(ua, q) ==
    LET o == upper(strip(q.answer_option))
    IN  o # EmptyStr /\ ua # EmptyStr /\ upper(ua)[1] = o[1]

\* lines 96-105: with a stored answer_option the verdict is the letter comparison
\* (the single-letter test of line 101 picks between two returns of False)
option_branch(ua, q) ==
    IF upper(ua) = upper(strip(q.answer_option)) THEN TRUE
    ELSE IF Len(ua) = 1 /\ isalpha(ua) THEN FALSE
    ELSE FALSE

\* line 112: the phrases of an order-required question
alphabetical_order == Chars("alphabetical order")
reverse_alphabetical == Chars("reverse alphabetical")

\* a variant of order_required that looks for the phrases without lowercasing
order_required_exact_case(q) ==
    \/ Contains(OrEmpty(q.question_text), alphabetical_order)
    \/ Contains(OrEmpty(q.question_text), reverse_alphabetical)

\* lines 111-112
order_required(q) ==
    LET qlow == lower(OrEmpty(q.question_text))
    IN  \/ Contains(qlow, alphabetical_order)
        \/ Contains(qlow, reverse_alphabetical)

\* a variant of set_match that compares the lists of pieces, not their sets
set_match_as_lists(ua, q, cs) ==
    /\ ~order_required(q)
    /\ Contains(q.answer_value, <<",">>)
    /\ Contains(ua, <<",">>)
    /\ LET exp_parts == _split_csv_list(q.answer_value)
           user_parts == _split_csv_list(ua)
       IN  IF cs
           THEN user_parts = exp_parts
           ELSE [i \in DOMAIN user_parts |-> normalize(user_parts[i])]
                    = [i \in DOMAIN exp_parts |-> normalize(exp_parts[i])]

\* lines 114-123: TRUE when the comma-separated comparison returns True
set_match(ua, q, cs) ==
    /\ ~order_required(q)
    /\ Contains(q.answer_value, <<",">>)
    /\ Contains(ua, <<",">>)
    /\ LET exp_parts == _split_csv_list(q.answer_value)
           user_parts == _split_csv_list(ua)
       IN  IF cs
           THEN Range(user_parts) = Range(exp_parts)
           ELSE {normalize(x) : x \in Range(user_parts)}
                    = {normalize(x) : x \in Range(exp_parts)}

\* a variant of exact_match that normalizes in both modes
exact_match_ignoring_mode(ua, q, cs) ==
    normalize(ua) = normalize(q.answer_value)

\* a variant of exact_match whose case-insensitive comparison lower-cases the
\* two strings as they are
exact_match_unstripped(ua, q, cs) ==
    IF cs THEN ua = strip(q.answer_value)
    ELSE lower(ua) = lower(q.answer_value)

\* lines 126-131: TRUE when the whole-string comparison returns True
exact_match(ua, q, cs) ==
    IF cs THEN ua = strip(q.answer_value)
    ELSE normalize(ua) = normalize(q.answer_value)

\* a variant of fallback that searches for a plain substring, as the older
\* graders do
fallback_substring(ua, q, cs) ==
    LET at == OrEmpty(q.answer_text)
        ua_n == normalize(ua)
        at_n == normalize(at)
    IN  IF cs
        THEN IF Len(ua) < 3 THEN FALSE ELSE Contains(at, ua)
        ELSE IF Len(ua_n) < 3 THEN FALSE ELSE Contains(at_n, ua_n)

\* a variant of fallback whose length guard is off by one
fallback_two_chars(ua, q, cs) ==
    LET at == OrEmpty(q.answer_text)
        ua_n == normalize(ua)
        at_n == normalize(at)
    IN  IF cs
        THEN IF Len(ua) < 2 THEN FALSE ELSE word_search(ua, at)
        ELSE IF Len(ua_n) < 2 THEN FALSE ELSE word_search(ua_n, at_n)

\* lines 134-144: the value returned by the fallback
fallback(ua, q, cs) ==
    LET at == OrEmpty(q.answer_text)
        ua_n == normalize(ua)
        at_n == normalize(at)
    IN  IF cs
        THEN IF Len(ua) < 3 THEN FALSE ELSE word_search(ua, at)
        ELSE IF Len(ua_n) < 3 THEN FALSE ELSE word_search(ua_n, at_n)

\* a variant of is_correct without the blank-answer test of lines 92-93
is_correct_no_blank_test(u, q, cs) ==
    LET ua == strip(OrEmpty(u))
    IN  IF Truthy(q.answer_option) THEN Return(option_branch(ua, q))
        ELSE IF Truthy(q.answer_value) /\ set_match(ua, q, cs) THEN Return(TRUE)
        ELSE IF Truthy(q.answer_value) /\ exact_match(ua, q, cs) THEN Return(TRUE)
        ELSE Return(fallback(ua, q, cs))

\* lines 90-144
is_correct(u, q, cs) ==
    LET ua == strip(OrEmpty(u))
    IN  IF ~Truthy(ua) THEN Return(FALSE)
        ELSE IF Truthy(q.answer_option) THEN Return(option_branch(ua, q))
        ELSE IF Truthy(q.answer_value) /\ set_match(ua, q, cs) THEN Return(TRUE)
        ELSE IF Truthy(q.answer_value) /\ exact_match(ua, q, cs) THEN Return(TRUE)
        ELSE Return(fallback(ua, q, cs))

(***************************************************************************)
(* quiz.py (the command-line runner)                                       *)
(***************************************************************************)
\* quiz.py normalize: s.strip() with no guard for None
quiz_normalize(s) == lower(CollapseSpace(strip(s)))

\* a variant of quiz_is_correct without the "if qa.answer_value:" guard of line 95:
\* a null answer_value then reaches .strip()
quiz_is_correct_unguarded(u, q, cs) ==
    IF u = None THEN Raise("AttributeError")
    ELSE LET ua == strip(u)
         IN  IF ~Truthy(ua) THEN Return(FALSE)
             ELSE IF Truthy(q.answer_option) /\ upper(strip(ua)) = upper(q.answer_option)
                  THEN Return(TRUE)
             ELSE IF q.answer_value = None THEN Raise("AttributeError")
             ELSE IF IF cs THEN strip(ua) = strip(q.answer_value)
                     ELSE quiz_normalize(ua) = quiz_normalize(q.answer_value)
                  THEN Return(TRUE)
             ELSE IF q.answer_text = None
                  THEN Raise(IF cs THEN "TypeError" ELSE "AttributeError")
             ELSE IF cs THEN Return(Contains(q.answer_text, ua))
             ELSE Return(Contains(quiz_normalize(q.answer_text), quiz_normalize(ua)))

\* quiz.py lines 84-106; None has no strip() and is no container
quiz_is_correct(u, q, cs) ==
    IF u = None THEN Raise("AttributeError")
    ELSE LET ua == strip(u)
         IN  IF ~Truthy(ua) THEN Return(FALSE)
             ELSE IF Truthy(q.answer_option) /\ upper(strip(ua)) = upper(q.answer_option)
                  THEN Return(TRUE)
             ELSE IF /\ Truthy(q.answer_value)
                     /\ IF cs THEN strip(ua) = strip(q.answer_value)
                        ELSE quiz_normalize(ua) = quiz_normalize(q.answer_value)
                  THEN Return(TRUE)
             ELSE IF q.answer_text = None
                  THEN Raise(IF cs THEN "TypeError" ELSE "AttributeError")
             ELSE IF cs THEN Return(Contains(q.answer_text, ua))
             ELSE Return(Contains(quiz_normalize(q.answer_text), quiz_normalize(ua)))

(***************************************************************************)
(* GUI/quiz_core.py (the older GUI core)                                   *)
(***************************************************************************)
\* GUI/quiz_core.py lines 86-108
gui_is_correct(u, q, cs) ==
    LET ua == strip(OrEmpty(u))
    IN  IF ~Truthy(ua) THEN Return(FALSE)
        ELSE IF Truthy(q.answer_option) /\ upper(strip(ua)) = upper(q.answer_option)
             THEN Return(TRUE)
        ELSE IF /\ Truthy(q.answer_value)
                /\ IF cs THEN strip(ua) = strip(q.answer_value)
                   ELSE normalize(ua) = normalize(q.answer_value)
             THEN Return(TRUE)
        ELSE IF cs THEN Return(Contains(OrEmpty(q.answer_text), ua))
        ELSE Return(Contains(normalize(OrEmpty(q.answer_text)), normalize(ua)))

(***************************************************************************)
(* build_db.py                                                             *)
(***************************************************************************)
\* str.rstrip(): trailing whitespace removed
rstrip(s) ==
    LET n == Len(s)
        trail == CHOOSE k \in 0..n :
                    /\ \A i \in (n - k + 1)..n : IsSpace(s[i])
                    /\ k = n \/ ~IsSpace(s[n - k])
    IN  SubSeq(s, 1, n - trail)

\* the end of the longest run of characters of the class cls that starts at
\* s[i] (i - 1 when s[i] is not of the class): what a greedy \s+ or \d+ consumes
Span(s, i, cls) ==
    CHOOSE j \in (i - 1)..Len(s) :
        /\ \A k \in i..j : s[k] \in cls
        /\ j = Len(s) \/ s[j + 1] \notin cls

\* line 20: the literal words of Q_MARKER_RE, lower-cased for IGNORECASE
question_word == Chars("question")
of_word == Chars("of")

\* line 20: Q_MARKER_RE.match(t), None when t does not match, else the text
\* of the group "num"
Q_MARKER_RE(t) ==
    LET word == Len(question_word)
        s1 == Span(t, word + 1, SpaceSet)
        d1 == Span(t, s1 + 1, DigitSet)
        s2 == Span(t, d1 + 1, SpaceSet)
        s3 == Span(t, s2 + 3, SpaceSet)
        d2 == Span(t, s3 + 1, DigitSet)
        s4 == Span(t, d2 + 1, SpaceSet)
    IN  IF /\ Len(t) >= word
           /\ lower(SubSeq(t, 1, word)) = question_word
           /\ s1 > word
           /\ d1 > s1
           /\ s2 > d1
           /\ Len(t) >= s2 + 2
           /\ lower(SubSeq(t, s2 + 1, s2 + 2)) = of_word
           /\ s3 > s2 + 2
           /\ d2 > s3
           /\ s4 = Len(t)
        THEN SubSeq(t, s1 + 1, d1)
        ELSE None

\* int() of a string of decimal digits
RECURSIVE int(_)
int(d) ==
    IF d = EmptyStr THEN 0
    ELSE 10 * int(SubSeq(d, 1, Len(d) - 1))
            + ((CHOOSE i \in 1..10 : Digits[i] = d[Len(d)]) - 1)

marker == Chars("[+] Answer>")

\* the offset of the first occurrence of sub in s (sub occurs in s)
Find(s, sub) ==
    CHOOSE i \in 0..(Len(s) - Len(sub)) :
        /\ SubSeq(s, i + 1, i + Len(sub)) = sub
        /\ \A j \in 0..(i - 1) : SubSeq(s, j + 1, j + Len(sub)) # sub

\* the index of the first TRUE of a sequence of test results, 0 when there is
\* none: next(j for j, line in enumerate(lines) if test(line))
First(tests) ==
    IF \E j \in 1..Len(tests) : tests[j]
    THEN CHOOSE j \in 1..Len(tests) : tests[j] /\ \A k \in 1..(j - 1) : ~tests[k]
    ELSE 0

\* a variant of IsSeparator that takes a line of 10 "=" for a separator
IsSeparator_ten_or_more(line) ==
    LET t == strip(line)
    IN  /\ {t[i] : i \in 1..Len(t)} = {"="}
        /\ Len(t) >= 10

\* lines 63-66: the test of a separator line
IsSeparator(line) ==
    LET t == strip(line)
    IN  /\ {t[i] : i \in 1..Len(t)} = {"="}
        /\ Len(t) > 10

\* lines 71-74: while lines and lines[-1].strip() == "": lines.pop()
RECURSIVE PopBlank(_)
PopBlank(lines) ==
    IF lines # <<>> /\ strip(lines[Len(lines)]) = EmptyStr
    THEN PopBlank(SubSeq(lines, 1, Len(lines) - 1))
    ELSE lines

\* "\n".join(lines)
RECURSIVE Join(_)
Join(lines) ==
    IF lines = <<>> THEN EmptyStr
    ELSE IF Len(lines) = 1 THEN lines[1]
    ELSE lines[1] \o <<"\n">> \o Join(Tail(lines))

\* a variant of StripNewlines that strips every kind of whitespace: s.strip()
StripNewlines_whitespace(s) == strip(s)

\* s.strip("\n")
StripNewlines(s) ==
    LET n == Len(s)
        lead == CHOOSE k \in 0..n :
                    /\ \A i \in 1..k : s[i] = "\n"
                    /\ k = n \/ s[k + 1] # "\n"
        trail == CHOOSE k \in 0..n :
                    /\ \A i \in (n - k + 1)..n : s[i] = "\n"
                    /\ k = n \/ s[n - k] # "\n"
    IN  IF lead = n THEN EmptyStr ELSE SubSeq(s, lead + 1, n - trail)

phrase == Chars("the correct answer is")

\* line 86: re.search(r"the correct answer is\s+(.*)$", l2, IGNORECASE):
\* None when there is no match, else group 1.  l2 is stripped, so $ is the
\* end of l2, and "." matches no newline: every character after the greedy
\* run of whitespace has to be on the same line
SearchPhrase(l2) ==
    LET hits == {i \in 0..(Len(l2) - Len(phrase) - 1) :
                    /\ lower(SubSeq(l2, i + 1, i + Len(phrase))) = phrase
                    /\ IsSpace(l2[i + Len(phrase) + 1])
                    /\ \A k \in (Span(l2, i + Len(phrase) + 1, SpaceSet) + 1)..Len(l2) :
                            l2[k] # "\n"}
        i == CHOOSE h \in hits : \A g \in hits : h <= g
    IN  IF hits = {} THEN None
        ELSE SubSeq(l2, Span(l2, i + Len(phrase) + 1, SpaceSet) + 1, Len(l2))

\* a variant of MatchOption that takes a letter of either case: [A-Za-z]
MatchOption_any_case(rest) ==
    LET n == Len(rest)
    IN  IF /\ n >= 4
           /\ rest[n] = ")" /\ IsAlpha(rest[n - 1]) /\ rest[n - 2] = "("
           /\ IsSpace(rest[n - 3])
        THEN <<SubSeq(rest, 1, n - 4), <<rest[n - 1]>>>>
        ELSE None

\* MatchOption with the whitespace before the parenthesis optional
MatchOption_empty_value(rest) ==
    LET n == Len(rest)
    IN  IF /\ n >= 3
           /\ rest[n] = ")" /\ IsUpper(rest[n - 1]) /\ rest[n - 2] = "("
        THEN <<SubSeq(rest, 1, n - 3), <<rest[n - 1]>>>>
        ELSE None

\* line 93: re.match(r"^(.*)\s+\(([A-Z])\)\s*$", rest) of a stripped rest:
\* None, or <<group 1, group 2>>
MatchOption(rest) ==
    LET n == Len(rest)
    IN  IF /\ n >= 4
           /\ rest[n] = ")" /\ IsUpper(rest[n - 1]) /\ rest[n - 2] = "("
           /\ IsSpace(rest[n - 3])
        THEN <<SubSeq(rest, 1, n - 4), <<rest[n - 1]>>>>
        ELSE None

\* line 100: re.match(r"^(.*)\s+\((.*)\)\s*$", rest) of a stripped rest:
\* None, or <<group 1, group 2>>; the greedy group 1 ends at the last " ("
MatchParen(rest) ==
    LET n == Len(rest)
        opens == {i \in 1..(n - 2) : IsSpace(rest[i]) /\ rest[i + 1] = "("}
        i == CHOOSE h \in opens : \A g \in opens : g <= h
    IN  IF n >= 3 /\ rest[n] = ")" /\ opens # {}
        THEN <<SubSeq(rest, 1, i - 1), SubSeq(rest, i + 2, n - 1)>>
        ELSE None

\* a variant of DeriveKeys that takes left whatever right is
RECURSIVE DeriveKeys_always_left(_)
DeriveKeys_always_left(a_lines) ==
    IF a_lines = <<>> THEN <<None, None>>
    ELSE LET l2 == strip(Head(a_lines))
             mm == SearchPhrase(l2)
             rest == strip(mm)
             mopt == MatchOption(rest)
             mpar == MatchParen(rest)
         IN  IF mm = None THEN DeriveKeys_always_left(Tail(a_lines))
             ELSE IF mopt # None THEN <<strip(mopt[1]), strip(mopt[2])>>
             ELSE IF mpar # None THEN <<strip(mpar[1]), None>>
             ELSE <<rest, None>>

\* a variant of DeriveKeys without the break statements: the last line that
\* matches sets the keys
RECURSIVE DeriveKeys_no_break(_)
DeriveKeys_no_break(a_lines) ==
    IF a_lines = <<>> THEN <<None, None>>
    ELSE LET l2 == strip(a_lines[Len(a_lines)])
             mm == SearchPhrase(l2)
             rest == strip(mm)
             mopt == MatchOption(rest)
             mpar == MatchParen(rest)
             left == strip(mpar[1])
             right == strip(mpar[2])
         IN  IF mm = None THEN DeriveKeys_no_break(SubSeq(a_lines, 1, Len(a_lines) - 1))
             ELSE IF mopt # None THEN <<strip(mopt[1]), strip(mopt[2])>>
             ELSE IF mpar # None
                  THEN <<IF lower(right) = lower(left) THEN right ELSE left, None>>
             ELSE <<rest, None>>

\* lines 81-108: <<answer_value, answer_option>> derived from the answer lines
RECURSIVE DeriveKeys(_)
DeriveKeys(a_lines) ==
    IF a_lines = <<>> THEN <<None, None>>
    ELSE LET l2 == strip(Head(a_lines))
             mm == SearchPhrase(l2)
             rest == strip(mm)
             mopt == MatchOption(rest)
             mpar == MatchParen(rest)
             left == strip(mpar[1])
             right == strip(mpar[2])
         IN  IF mm = None THEN DeriveKeys(Tail(a_lines))
             ELSE IF mopt # None THEN <<strip(mopt[1]), strip(mopt[2])>>
             ELSE IF mpar # None
                  THEN <<IF lower(right) = lower(left) THEN right ELSE left, None>>
             ELSE <<rest, None>>

\* a variant of post_marker that takes the marker to start the line:
\* marker_line[len(marker):]
post_marker_from_line_start(marker_line) ==
    SubSeq(marker_line, Len(marker) + 1, Len(marker_line))

\* lines 53-55: marker_line.split(marker, 1)[1] (marker_line holds the marker)
post_marker(marker_line) ==
    SubSeq(marker_line, Find(marker_line, marker) + Len(marker) + 1, Len(marker_line))

\* lines 41-43: the index in block of the first line holding the answer
\* marker, 0 on StopIteration
AnswerIndex(block) == First([j \in 1..Len(block) |-> Contains(block[j], marker)])

\* a variant of ParseBlock that derives the keys from the answer lines before
\* they are cut at the separator
ParseBlock_keys_before_cut(block) ==
    LET m == Q_MARKER_RE(strip(block[1]))
        qnum == int(m)
        ans_idx == AnswerIndex(block)
        q_lines == SubSeq(block, 2, ans_idx - 1)
        marker_line == block[ans_idx]
        post == post_marker(marker_line)
        a_all == (IF post # EmptyStr THEN <<post>> ELSE <<>>)
                    \o SubSeq(block, ans_idx + 1, Len(block))
        sep_pos == First([j \in 1..Len(a_all) |-> IsSeparator(a_all[j])])
        a_cut == IF sep_pos # 0 THEN SubSeq(a_all, 1, sep_pos - 1) ELSE a_all
        q_trim == PopBlank(q_lines)
        a_lines == PopBlank(a_cut)
        keys == DeriveKeys(a_all)
    IN  IF m = None THEN <<>>
        ELSE IF ans_idx = 0 THEN <<>>
        ELSE << [qnum |-> qnum,
                 question_text |-> StripNewlines(Join(q_trim)),
                 answer_text |-> StripNewlines(Join(a_lines)),
                 answer_value |-> keys[1],
                 answer_option |-> keys[2]] >>

\* lines 32-118, the body of the loop for one block: the records it appends
ParseBlock(block) ==
    LET m == Q_MARKER_RE(strip(block[1]))
        qnum == int(m)
        ans_idx == AnswerIndex(block)
        q_lines == SubSeq(block, 2, ans_idx - 1)
        marker_line == block[ans_idx]
        post == post_marker(marker_line)
        a_all == (IF post # EmptyStr THEN <<post>> ELSE <<>>)
                    \o SubSeq(block, ans_idx + 1, Len(block))
        sep_pos == First([j \in 1..Len(a_all) |-> IsSeparator(a_all[j])])
        a_cut == IF sep_pos # 0 THEN SubSeq(a_all, 1, sep_pos - 1) ELSE a_all
        q_trim == PopBlank(q_lines)
        a_lines == PopBlank(a_cut)
        keys == DeriveKeys(a_lines)
    IN  IF m = None THEN <<>>
        ELSE IF ans_idx = 0 THEN <<>>
        ELSE << [qnum |-> qnum,
                 question_text |-> StripNewlines(Join(q_trim)),
                 answer_text |-> StripNewlines(Join(a_lines)),
                 answer_value |-> keys[1],
                 answer_option |-> keys[2]] >>

\* line 25
Paragraphs(doc) == [i \in 1..Len(doc) |-> rstrip(doc[i])]

\* line 27: the indices of the question-marker lines, in order
q_indices(ps) ==
    LET hit == {i \in 1..Len(ps) : Q_MARKER_RE(strip(ps[i])) # None}
        RECURSIVE Sorted(_)
        Sorted(S) ==
            IF S = {} THEN <<>>
            ELSE LET lo == CHOOSE x \in S : \A y \in S : x <= y
                 IN  <<lo>> \o Sorted(S \ {lo})
    IN  Sorted(hit)

\* a variant of Block that runs every block to the end of the document
Block_to_end(ps, qi, k) == SubSeq(ps, qi[k], Len(ps))

\* lines 31-32: the k-th block
Block(ps, qi, k) ==
    LET start == qi[k]
        end == IF k + 1 <= Len(qi) THEN qi[k + 1] ELSE Len(ps) + 1
    IN  SubSeq(ps, start, end - 1)

\* lines 23-120: the paragraphs of the document to the list of records
RECURSIVE ParseFrom(_, _, _)
ParseFrom(ps, qi, k) ==
    IF k > Len(qi) THEN <<>>
    ELSE ParseBlock(Block(ps, qi, k)) \o ParseFrom(ps, qi, k + 1)

parse_docx(doc) ==
    LET ps == Paragraphs(doc)
    IN  ParseFrom(ps, q_indices(ps), 1)

(***************************************************************************)
(* The store: build_db.py init_db, upsert_questions and main, and          *)
(* load_random_questions.  A row of the table questions is a record with   *)
(* the fields of a parsed question; rows are kept in rowid order.  The     *)
(* column id is read by no query of the program and is left out.           *)
(***************************************************************************)
\* no file at db_path
NoDatabase == [file |-> FALSE, table |-> FALSE, rows |-> <<>>]

\* build_db.py lines 123-139: CREATE TABLE IF NOT EXISTS; connect creates the
\* file
init_db(d) == [file |-> TRUE, table |-> TRUE, rows |-> d.rows]

\* a variant of upsert_row with ON CONFLICT(qnum) DO NOTHING
upsert_row_keep_existing(rows, q) ==
    IF \E i \in 1..Len(rows) : rows[i].qnum = q.qnum
    THEN rows
    ELSE Append(rows, q)

\* a variant of upsert_row for a table without the UNIQUE constraint
upsert_row_append(rows, q) == Append(rows, q)

\* lines 147-153: INSERT ... ON CONFLICT(qnum) DO UPDATE SET the four other
\* columns, for one parameter tuple
upsert_row(rows, q) ==
    IF \E i \in 1..Len(rows) : rows[i].qnum = q.qnum
    THEN [i \in 1..Len(rows) |-> IF rows[i].qnum = q.qnum THEN q ELSE rows[i]]
    ELSE Append(rows, q)

\* lines 145-165: executemany runs the statement for each question in turn
RECURSIVE executemany(_, _)
executemany(rows, batch) ==
    IF batch = <<>> THEN rows
    ELSE executemany(upsert_row(rows, Head(batch)), Tail(batch))

\* the message of an exception: the text, and the numbers put in its {}
Message(text, numbers) == [text |-> text, numbers |-> numbers]

NoMessage == Message("", <<>>)

\* the outcome of an operation on the store
Outcome(d, exc, msg, result) == [db |-> d, raised |-> exc, message |-> msg, result |-> result]

\* sqlite3.connect creates the file; a statement on a missing table raises
NoSuchTable(d) ==
    Outcome([d EXCEPT !.file = TRUE], "OperationalError",
            Message("no such table: questions", <<>>), <<>>)

\* lines 142-166
upsert_questions(d, batch) ==
    IF ~d.table THEN NoSuchTable(d)
    ELSE Outcome([d EXCEPT !.rows = executemany(d.rows, batch)], "none", NoMessage, <<>>)

\* a variant of main without the test of lines 179-180
main_accepts_empty(d, exists, parsed) ==
    IF ~exists THEN Outcome(d, "SystemExit", Message("Docx not found: {}", <<>>), <<>>)
    ELSE upsert_questions(init_db(d), parsed)

\* lines 169-186: exists is args.docx.exists() and parsed what parse_docx
\* returns for the document (line 178)
main(d, exists, parsed) ==
    IF ~exists THEN Outcome(d, "SystemExit", Message("Docx not found: {}", <<>>), <<>>)
    ELSE IF parsed = <<>>
    THEN Outcome(d, "SystemExit",
                 Message("No questions were parsed. Check the document formatting.",
                         <<>>), <<>>)
    ELSE upsert_questions(init_db(d), parsed)

\* GUI/src/quiz_core.py line 46: SELECT qnum FROM questions, which SQLite
\* answers from the index on qnum, in ascending order
RECURSIVE SortedQnums(_)
SortedQnums(S) ==
    IF S = {} THEN <<>>
    ELSE LET lo == CHOOSE x \in S : \A y \in S : x <= y
         IN  <<lo>> \o SortedQnums(S \ {lo})

qnums(d) == SortedQnums({d.rows[i].qnum : i \in 1..Len(d.rows)})

\* the lists rng.sample(population, k) can return: k elements at distinct
\* positions of the population, in any order
Samples(population, k) ==
    {[i \in 1..k |-> population[pos[i]]] :
        pos \in {f \in [1..k -> 1..Len(population)] :
                    \A i, j \in 1..k : f[i] = f[j] => i = j}}

\* a variant of FetchOrdered without lines 60-61: the rows as the SELECT of
\* lines 50-57 returns them
FetchOrdered_as_selected(d, draw) ==
    LET sorted == qnums(d)
        hits == SelectSeq(sorted, LAMBDA n : \E i \in 1..Len(draw) : draw[i] = n)
    IN  [i \in 1..Len(hits) |->
            d.rows[CHOOSE j \in 1..Len(d.rows) : d.rows[j].qnum = hits[i]]]

\* lines 49-72: the rows of the chosen qnums, in the order chosen
FetchOrdered(d, draw) ==
    [i \in 1..Len(draw) |->
        d.rows[CHOOSE j \in 1..Len(d.rows) : d.rows[j].qnum = draw[i]]]

\* the seed argument: None, or an int
NoSeed == [given |-> FALSE, value |-> 0]
IntSeed(n) == [given |-> TRUE, value |-> n]

\* a variant of sample for random.Random() seeded from the system whatever
\* seed is handed in
sample_unseeded(r, s, population, k) == Samples(population, k)

\* lines 35 and 48: random.Random(seed).sample(population, k).  With
\* seed = None the generator is seeded from the system and any sample can
\* come out; with an integer seed the result is the one the generator r
\* gives for that seed, population and k
sample(r, s, population, k) ==
    IF ~s.given THEN Samples(population, k)
    ELSE {r[s.value][<<population, k>>]}

\* a variant of load_random_questions that takes the sampled rows out of the
\* table
load_random_questions_consuming(d, count, draw, exc) ==
    IF ~d.table THEN NoSuchTable(d)
    ELSE IF Len(d.rows) = 0
    THEN Outcome(d, exc, Message("Database contains 0 questions.", <<>>), <<>>)
    ELSE IF count > Len(d.rows)
    THEN Outcome(d, exc, Message("Requested {} questions, but database only has {}.",
                                 <<count, Len(d.rows)>>), <<>>)
    ELSE IF count < 0
    THEN Outcome(d, "ValueError",
                 Message("Sample larger than population or is negative", <<>>), <<>>)
    ELSE Outcome([d EXCEPT !.rows = SelectSeq(d.rows,
                        LAMBDA r : \A i \in 1..Len(draw) : draw[i] # r.qnum)],
                 "none", NoMessage, FetchOrdered(d, draw))

\* a variant of load_random_questions without the test of count against total
load_random_questions_unchecked(d, count, draw, exc) ==
    IF ~d.table THEN NoSuchTable(d)
    ELSE IF Len(d.rows) = 0
    THEN Outcome(d, exc, Message("Database contains 0 questions.", <<>>), <<>>)
    ELSE IF count < 0 \/ count > Len(d.rows)
    THEN Outcome(d, "none", NoMessage, FetchOrdered(d, qnums(d)))
    ELSE Outcome(d, "none", NoMessage, FetchOrdered(d, draw))

\* GUI/src/quiz_core.py lines 34-72 and quiz.py lines 43-81: chosen is what
\* rng.sample returns, exc the exception class of the two tests (ValueError
\* in quiz_core.py, SystemExit in quiz.py)
load_random_questions(d, count, draw, exc) ==
    IF ~d.table THEN NoSuchTable(d)
    ELSE IF Len(d.rows) = 0
    THEN Outcome(d, exc, Message("Database contains 0 questions.", <<>>), <<>>)
    ELSE IF count > Len(d.rows)
    THEN Outcome(d, exc, Message("Requested {} questions, but database only has {}.",
                                 <<count, Len(d.rows)>>), <<>>)
    ELSE IF count < 0
    THEN Outcome(d, "ValueError",
                 Message("Sample larger than population or is negative", <<>>), <<>>)
    ELSE Outcome(d, "none", NoMessage, FetchOrdered(d, draw))

\* the store before any build, and no operation run
StoreIdle ==
    /\ db = NoDatabase
    /\ op = "none"
    /\ requested = 0
    /\ raised = "none"
    /\ message = NoMessage
    /\ loaded = <<>>
    /\ latest = {}
    /\ seed = NoSeed
    /\ chosen = <<>>
    /\ rng = <<>>
    /\ sampled = {}
    /\ replay = FALSE

(***************************************************************************)
(* extract_mc_options of GUI/src/quiz_core.py and GUI/quiz_core.py         *)
(***************************************************************************)
\* the characters of the two source files that are not ASCII, each a single
\* character named here by its Unicode name
EnDash == "EN DASH"
ACircumflex == "LATIN SMALL LETTER A WITH CIRCUMFLEX"
EuroSign == "EURO SIGN"
LeftQuote == "LEFT DOUBLE QUOTATION MARK"

\* GUI/src/quiz_core.py line 84: the class of a hyphen and an en dash
Dashes == {"-", EnDash}

\* GUI/quiz_core.py line 80: the class as that file has it, a hyphen and the
\* three characters the bytes of an en dash turn into when read as cp1252
GuiDashes == {"-", ACircumflex, EuroSign, LeftQuote}

\* str.splitlines(): the lines between the line breaks \n, \r and \r\n; a
\* break at the end starts no further line
RECURSIVE splitlines(_)
splitlines(s) ==
    LET breaks == {i \in 1..Len(s) : s[i] \in {"\n", "\r"}}
        b == CHOOSE i \in breaks : \A j \in breaks : i <= j
        skip == IF s[b] = "\r" /\ b < Len(s) /\ s[b + 1] = "\n" THEN 2 ELSE 1
    IN  IF s = EmptyStr THEN <<>>
        ELSE IF breaks = {} THEN <<s>>
        ELSE <<SubSeq(s, 1, b - 1)>> \o splitlines(SubSeq(s, b + skip, Len(s)))

\* line 84: re.match(r"^\s*([A-Z])\s*[dashes]\s*(.+?)\s*$", line) and line 86:
\* the pair (group 1 upper-cased, group 2), None when the line does not
\* match.  The \s* after the dash is greedy and (.+?) needs one character:
\* when only whitespace follows the dash the engine gives the last of it
\* back to group 2
MatchOptionLine(line, dashes) ==
    LET n == Len(line)
        s1 == Span(line, 1, SpaceSet)
        s2 == Span(line, s1 + 2, SpaceSet)
        d == s2 + 1
        s3 == Span(line, d + 1, SpaceSet)
    IN  IF /\ n >= s1 + 1
           /\ IsUpper(line[s1 + 1])
           /\ n >= d
           /\ line[d] \in dashes
           /\ n > d
        THEN <<upper(<<line[s1 + 1]>>),
               IF s3 = n THEN <<line[n]>> ELSE strip(SubSeq(line, d + 1, n))>>
        ELSE None

\* lines 82-87 with the dash class of the file
ExtractOptions(question_text, dashes) ==
    LET lines == splitlines(OrEmpty(question_text))
        matches == [i \in 1..Len(lines) |-> MatchOptionLine(lines[i], dashes)]
    IN  SelectSeq(matches, LAMBDA m : m # None)

\* GUI/src/quiz_core.py lines 75-87
extract_mc_options(question_text) == ExtractOptions(question_text, Dashes)

\* GUI/quiz_core.py lines 71-83
gui_extract_mc_options(question_text) == ExtractOptions(question_text, GuiDashes)

(***************************************************************************)
(* GUI/src/gui_app.py: the quiz page and the main window.  A widget is     *)
(* modelled by the properties the code reads: the option widgets of a      *)
(* question by the set of the checked positions, the line edit by its      *)
(* text, the stacked widget by the page shown.  Options are shown in the   *)
(* order extract_mc_options returns them (shuffle_options off).            *)
(***************************************************************************)
\* lines 42-53
is_multi_select_question(question_text) ==
    LET t == lower(OrEmpty(question_text))
        phrases ==
            { Chars("pick two"), Chars("pick 2"), Chars("choose two"),
              Chars("choose 2"), Chars("select two"), Chars("select 2"),
              Chars("select all that apply"), Chars("choose all that apply") }
    IN  \E ph \in phrases : Contains(t, ph)

\* list.sort(key=..., reverse=...) of Python: keys[i] is the key of seq[i],
\* a str; the sort is stable, also when reversed.  ascii holds the ASCII
\* characters from the tab to "~" in code point order, the order of str
\* comparison (without the grave accent, which no text of the model holds);
\* the other characters come after them
SortByKey(seq, keys, reverse) ==
    LET ascii == Chars("\t\n\r !\"#$%&'()*+,-./0123456789:;<=>?@ABCDEFGHIJKLMNOPQRSTUVWXYZ[\\]^_abcdefghijklmnopqrstuvwxyz{|}~")
        ord(c) ==
            IF \E i \in DOMAIN ascii : ascii[i] = c
            THEN CHOOSE i \in DOMAIN ascii : ascii[i] = c
            ELSE Len(ascii) + 1
        less(x, y) ==
            \E k \in 1..(Len(x) + 1) :
                /\ k <= Len(y)
                /\ \A i \in 1..(k - 1) : x[i] = y[i]
                /\ k = Len(x) + 1 \/ ord(x[k]) < ord(y[k])
        n == Len(seq)
        before(j, i) ==
            \/ IF reverse THEN less(keys[i], keys[j]) ELSE less(keys[j], keys[i])
            \/ keys[j] = keys[i] /\ j < i
        pos(i) == 1 + Cardinality({j \in 1..n : before(j, i)})
    IN  [q \in 1..n |-> seq[CHOOSE i \in 1..n : pos(i) = q]]

\* lines 382-423: the answer read from the widgets.  opts are the options
\* shown, chk the checked positions, txt the text of the line edit, cur
\* _current_qa
get_user_answer(mode, opts, chk, txt, cur) ==
    IF mode = "mc"
    THEN IF chk = {} THEN EmptyStr
         ELSE LET btn == opts[CHOOSE i \in chk : TRUE]
              IN  IF Truthy(cur.answer_option) THEN strip(btn[1]) ELSE strip(btn[2])
    ELSE IF mode = "mc_multi"
    THEN LET \* the checked positions in the order of the widgets
             order == [i \in 1..Cardinality(chk) |->
                          CHOOSE c \in chk : Cardinality({d \in chk : d <= c}) = i]
             picked == [i \in 1..Len(order) |->
                            <<strip(opts[order[i]][1]), strip(opts[order[i]][2])>>]
             qlow == lower(OrEmpty(cur.question_text))
             by_text == [i \in 1..Len(picked) |-> lower(picked[i][2])]
             by_letter == [i \in 1..Len(picked) |-> upper(picked[i][1])]
             sorted == IF Contains(qlow, Chars("reverse alphabetical"))
                       THEN SortByKey(picked, by_text, TRUE)
                       ELSE IF Contains(qlow, Chars("alphabetical order"))
                       THEN SortByKey(picked, by_text, FALSE)
                       ELSE SortByKey(picked, by_letter, FALSE)
             \* ", ".join of the texts from position i on
             RECURSIVE join(_)
             join(i) ==
                 IF i > Len(sorted) THEN EmptyStr
                 ELSE IF i = Len(sorted) THEN sorted[i][2]
                 ELSE sorted[i][2] \o <<",", " ">> \o join(i + 1)
         IN  IF chk = {} THEN EmptyStr ELSE join(1)
    ELSE strip(txt)

\* lines 361-369: what _update_submit_enabled hands to submit_btn.setEnabled
update_submit_enabled(mode, chk, txt) ==
    IF mode = "mc" THEN chk # {}
    ELSE IF mode = "mc_multi" THEN chk # {}
    ELSE strip(txt) # EmptyStr

\* lines 352-359 and the click on an option widget: the checked positions
\* after position i is chosen, setChecked(True) of the radio button of an
\* exclusive group in mode "mc", toggle() of the check box in mode "mc_multi"
select_option(mode, n, chk, i) ==
    IF mode = "mc" /\ i \in 1..n THEN {i}
    ELSE IF mode = "mc_multi" /\ i \in 1..n
    THEN (IF i \in chk THEN chk \ {i} ELSE chk \cup {i})
    ELSE chk

\* MainWindow.__init__ (lines 615-640) and QuizPage.__init__: the start page
\* is shown, no round, no question yet (_current_qa a record of no text and
\* no key), no answer widget, Submit disabled, no timer
WindowIdle ==
    /\ page = "start"
    /\ _qas = <<>>
    /\ _idx = 0
    /\ _results = <<>>
    /\ _case_sensitive = FALSE
    /\ round_list = <<>>
    /\ _current_qa = [qnum |-> 0, question_text |-> EmptyStr,
                      answer_text |-> EmptyStr, answer_value |-> None,
                      answer_option |-> None]
    /\ _mode = "text"
    /\ checked = {}
    /\ typed = EmptyStr
    /\ widgets_enabled = FALSE
    /\ submit_enabled = FALSE
    /\ timers = <<>>
    /\ slot_error = "none"
    /\ stale_ran = FALSE

\* no call of extract_mc_options yet, and the window as constructed
GuiIdle ==
    /\ options = <<>>
    /\ extractor = "none"
    /\ WindowIdle

(***************************************************************************)
(* The inputs of a grading call                                            *)
(***************************************************************************)
MaxAnswerLen == 3

\* the keys of the answers typed exhaustively up to MaxAnswerLen
AnswerKeys == {"a", "A", "b", ",", " "}

TypedAnswers == UNION {[1..n -> AnswerKeys] : n \in 0..MaxAnswerLen}

SampleAnswers ==
    { None, Chars("c"), Chars("DHCP"), Chars("dhcp (c)"), Chars("\ta \n"),
      Chars("frames"), Chars("Frames"), Chars("MAC"), Chars("mac"), Chars("ma"),
      Chars("red, blue"), Chars("Red, Blue"), Chars("Blue, Red"), Chars("blue,red,"),
      Chars("a  b"), Chars("b, a, a,"), Chars("Blue,  Red"), Chars("the correct") }

UserAnswers == TypedAnswers \cup SampleAnswers

QA(qt, at, av, ao) ==
    [qnum |-> 1, question_text |-> qt, answer_text |-> at,
     answer_value |-> av, answer_option |-> ao]

\* records with a stored option letter (the last options are the ones the
\* engine does not validate)
ChoiceRecords ==
    { QA(Chars("Pick one\nA - a\nB - b"), k[1], k[2], ao) :
        k \in { <<Chars("the correct answer is a (A)"), Chars("a")>>,
                <<Chars("b or A b, a"), None>>,
                <<Chars("the correct answer is DHCP (C)"), Chars("DHCP")>> },
        ao \in { Chars("A"), Chars("b"), Chars("C"), Chars(" A"), Chars("AB"),
                 Chars(" "), Chars(",") } }

OrderTexts ==
    { EmptyStr, Chars("List them in Alphabetical Order"),
      Chars("list in reverse alphabetical") }

\* records graded by answer_value
ValueRecords ==
    { QA(qt, k[1], k[2], None) :
        qt \in OrderTexts,
        k \in { <<Chars("the correct answer is a"), Chars("a")>>,
                <<EmptyStr, Chars("A b")>>,
                <<EmptyStr, Chars(" a  b")>>,
                <<Chars("the correct answer is a,b (not b,a)"), Chars("a,b")>>,
                <<EmptyStr, Chars("b, A,")>>,
                <<EmptyStr, Chars("a,a,b")>>,
                <<EmptyStr, Chars(",")>>,
                <<Chars("the correct answer is Frames"), Chars("Frames")>>,
                <<Chars("the correct answer is Frames (frames carry packets)"),
                  Chars("Frames")>>,
                <<Chars("the correct answer is Blue, Red"), Chars("Blue, Red")>>,
                <<Chars("the correct answer is Blue, Red (not Red, Blue)"),
                  Chars("Blue, Red")>> } }
    \cup { QA(EmptyStr, Chars("a,b"), Chars("b,a"), EmptyStr) }

\* records with no derived key
TextRecords ==
    { QA(EmptyStr, at, av, None) :
        av \in {None, EmptyStr},
        at \in { EmptyStr, Chars("a,b"), Chars("ab a"), Chars("A  b,a"), None,
                 Chars("the switch forwards frames based on MAC addresses") } }

Records == ChoiceRecords \cup ValueRecords \cup TextRecords

Init ==
    /\ user_answer \in UserAnswers
    /\ qa \in Records
    /\ case_sensitive \in BOOLEAN
    /\ grader = "none"
    /\ verdict = FALSE
    /\ error = "none"
    /\ paras = <<>>
    /\ questions = <<>>
    /\ build_pc = "start"
    /\ StoreIdle
    /\ GuiIdle

\* one grading call; its result is kept for the claims
Grade(name, result) ==
    /\ grader = "none"
    /\ grader' = name
    /\ verdict' = result.val
    /\ error' = result.exc
    /\ UNCHANGED <<user_answer, qa, case_sensitive, paras, questions, build_pc>>
    /\ UNCHANGED store_vars
    /\ UNCHANGED gui_vars

\* GUI/src/quiz_core.py is_correct
IsCorrect == Grade("core", is_correct(user_answer, qa, case_sensitive))

\* quiz.py is_correct
QuizIsCorrect == Grade("cli", quiz_is_correct(user_answer, qa, case_sensitive))

\* GUI/quiz_core.py is_correct
GuiIsCorrect == Grade("gui", gui_is_correct(user_answer, qa, case_sensitive))

Next == IsCorrect \/ QuizIsCorrect \/ GuiIsCorrect

Spec == Init /\ [][Next]_vars

(***************************************************************************)
(* The inputs of a build: documents of up to MaxParas paragraphs           *)
(***************************************************************************)
MaxParas == 5

DocLines ==
    { Chars("Question 1 of 3"),
      Chars("question  02 OF 3 "),
      Chars("Question 3 of 3"),
      Chars("[+] Answer> the correct answer is a (A)"),
      Chars("A - a"),
      EmptyStr }

LineDocuments == UNION {[1..n -> DocLines] : n \in 0..MaxParas}

\* the lines of one block: the question segment, the answer-marker line and
\* the lines that follow it
QuestionSegments ==
    { <<>>,
      <<Chars("What is it?"), Chars("A - a"), Chars(" B - b")>>,
      <<EmptyStr, Chars("What?"), EmptyStr, Chars("  x  y"), EmptyStr, Chars("  ")>>,
      <<EmptyStr, EmptyStr>>,
      <<Chars("\nWhat?")>> }

AnswerMarkerLines ==
    { Chars("[+] Answer>"),
      Chars("[+] Answer> the correct answer is Frames (C)"),
      Chars("[+] Answer>   The Correct Answer Is  a (b) (D) "),
      Chars("[+] Answer> the correct answer is Hub Port (hub port)"),
      Chars("[+] Answer> the correct answer is MAC (Media Access)"),
      Chars("[+] Answer> the correct answer is 42"),
      Chars("[+] Answer> the correct answer is x (c)"),
      Chars("[+] Answer> the correct answer is(x) (A)"),
      Chars("[+] Answer> the correct answer is (A)"),
      Chars("[+] Answer> the correct answer is\nFrames (C)"),
      Chars("see [+] Answer>see below"),
      Chars("[+] Answer>===========") }

FollowingLines ==
    { <<>>,
      <<EmptyStr, Chars("  ")>>,
      <<EmptyStr, Chars("the correct answer is Hub (A)"), EmptyStr, Chars("B - b"), EmptyStr>>,
      <<Chars("more"), Chars("=========="), Chars("tail ")>>,
      <<Chars("note"), Chars("  ============"), Chars("the correct answer is Late (Z)")>>,
      <<Chars("The correct answer is"), Chars("the correct answer is  late")>> }

BlockDocuments ==
    { <<Chars("Question 7 of 9")>> \o q \o <<a>> \o f :
        q \in QuestionSegments, a \in AnswerMarkerLines, f \in FollowingLines }

Documents == LineDocuments \cup BlockDocuments

ParseInit ==
    /\ paras \in Documents
    /\ questions = <<>>
    /\ build_pc = "start"
    /\ user_answer = EmptyStr
    /\ qa = QA(EmptyStr, EmptyStr, None, None)
    /\ case_sensitive = FALSE
    /\ grader = "none"
    /\ verdict = FALSE
    /\ error = "none"
    /\ StoreIdle
    /\ GuiIdle

\* build_db.py line 178: questions = parse_docx(args.docx)
ParseDocx ==
    /\ build_pc = "start"
    /\ questions' = parse_docx(paras)
    /\ build_pc' = "parsed"
    /\ UNCHANGED <<paras, user_answer, qa, case_sensitive, grader, verdict, error>>
    /\ UNCHANGED store_vars
    /\ UNCHANGED gui_vars

ParseNext == ParseDocx

ParseSpec == ParseInit /\ [][ParseNext]_vars

(***************************************************************************)
(* Builds, upserts and sampling calls on one store                         *)
(***************************************************************************)
MaxBatch == 2

Question(n, qt, at, av, ao) ==
    [qnum |-> n, question_text |-> qt, answer_text |-> at,
     answer_value |-> av, answer_option |-> ao]

\* the dicts handed to upsert_questions: two versions of question 1, the
\* second without derived keys, and question 2
SampleQuestions ==
    { Question(1, Chars("one?"), Chars(" the correct answer is a (A)"), Chars("a"), Chars("A")),
      Question(1, Chars("one!"), Chars("a"), None, None),
      Question(2, Chars("two?"), Chars("b (B)"), Chars("b"), Chars("B")) }

Batches == UNION {[1..n -> SampleQuestions] : n \in 0..MaxBatch}

\* the documents handed to main
BuildDocuments ==
    { <<>>,
      <<Chars("Question 1 of 3")>>,
      <<Chars("A - a"), Chars("[+] Answer> the correct answer is a (A)")>>,
      <<Chars("Question 1 of 3"), Chars("[+] Answer> the correct answer is a (A)")>>,
      <<Chars("Question 3 of 3"), Chars("A - a"), Chars("[+] Answer>")>>,
      <<Chars("question  02 OF 3 "), Chars("[+] Answer>b"),
        Chars("Question 3 of 3"), Chars("[+] Answer> the correct answer is c")>> }

\* line 178: parse_docx of each of them
BuildParses == [doc \in BuildDocuments |-> parse_docx(doc)]

\* the counts handed to load_random_questions
Counts == (-1)..3

StoreInit ==
    /\ StoreIdle
    /\ GuiIdle
    /\ paras = <<>>
    /\ questions = <<>>
    /\ build_pc = "start"
    /\ user_answer = EmptyStr
    /\ qa = QA(EmptyStr, EmptyStr, None, None)
    /\ case_sensitive = FALSE
    /\ grader = "none"
    /\ verdict = FALSE
    /\ error = "none"

\* the seeded calls that returned while the rows stayed as they are, after
\* one more operation: a call is kept as its seed, its count and the qnums
\* it returned
Sampled(h, d, s, count, out) ==
    LET kept == IF out.db.rows = d.rows THEN h ELSE {}
    IN  IF s.given /\ out.raised = "none"
        THEN kept \cup {[seed |-> s, count |-> count,
                         qnums |-> [i \in 1..Len(out.result) |-> out.result[i].qnum]]}
        ELSE kept

\* one operation on the store; its outcome is kept for the claims.  s and
\* draw are the seed and the sample of a sampling call, NoSeed and <<>> in
\* the build operations, which draw nothing
StoreStep(name, count, s, draw, out) ==
    /\ op' = name
    /\ requested' = count
    /\ seed' = s
    /\ chosen' = draw
    /\ db' = out.db
    /\ raised' = out.raised
    /\ message' = out.message
    /\ loaded' = out.result
    /\ sampled' = Sampled(sampled, db, s, count, out)
    /\ replay' = /\ s.given
                 /\ out.raised = "none"
                 /\ \E e \in sampled : e.seed = s /\ e.count = count
    /\ rng' = rng
    /\ UNCHANGED <<user_answer, qa, case_sensitive, grader, verdict, error>>
    /\ UNCHANGED gui_vars

\* the record of the last upsert of each qnum, after one more batch
Upserted(l, batch) ==
    {r \in l : \A i \in 1..Len(batch) : batch[i].qnum # r.qnum}
        \cup {batch[i] : i \in {h \in 1..Len(batch) :
                                 \A j \in (h + 1)..Len(batch) :
                                    batch[j].qnum # batch[h].qnum}}

InitDb ==
    /\ StoreStep("init_db", 0, NoSeed, <<>>, Outcome(init_db(db), "none", NoMessage, <<>>))
    /\ UNCHANGED <<latest, paras, questions, build_pc>>

\* one call of upsert_questions with a batch of batches
Upsert(batches) ==
    \E batch \in batches :
        LET out == upsert_questions(db, batch)
        IN  /\ StoreStep("upsert_questions", 0, NoSeed, <<>>, out)
            /\ latest' = IF out.raised = "none" THEN Upserted(latest, batch) ELSE latest
            /\ UNCHANGED <<paras, questions, build_pc>>

UpsertQuestions == Upsert(Batches)

\* build_db.py main: one run of the build on a document
Main ==
    \E exists \in BOOLEAN, doc \in BuildDocuments :
        LET out == main(db, exists, BuildParses[doc])
        IN  /\ StoreStep("main", 0, NoSeed, <<>>, out)
            /\ paras' = IF exists THEN doc ELSE <<>>
            /\ questions' = IF exists THEN BuildParses[doc] ELSE <<>>
            /\ build_pc' = "exit"
            /\ latest' = IF out.raised = "none"
                          THEN Upserted(latest, BuildParses[doc]) ELSE latest

\* one call of load_random_questions with a count of counts and a seed of
\* seeds; the seed decides what rng.sample returns, a sample of count of the
\* stored qnums
Load(name, exc, counts, seeds) ==
    \E count \in counts, s \in seeds :
        \E draw \in (IF 0 <= count /\ count <= Len(db.rows)
                      THEN sample(rng, s, qnums(db), count) ELSE {<<>>}) :
            /\ StoreStep(name, count, s, draw,
                         load_random_questions(db, count, draw, exc))
            /\ UNCHANGED <<latest, paras, questions, build_pc>>

\* GUI/src/quiz_core.py load_random_questions, seed = None
LoadRandomQuestions == Load("load_random_questions", "ValueError", Counts, {NoSeed})

\* quiz.py load_random_questions, seed = None (the default of --seed)
QuizLoadRandomQuestions == Load("quiz.load_random_questions", "SystemExit", Counts, {NoSeed})

StoreNext ==
    \/ InitDb
    \/ UpsertQuestions
    \/ Main
    \/ LoadRandomQuestions
    \/ QuizLoadRandomQuestions

StoreSpec == StoreInit /\ [][StoreNext]_vars

(***************************************************************************)
(* Quiz rounds on a built store: sampling with a seed, grading the sampled *)
(* records, and build passes between the rounds                            *)
(***************************************************************************)
\* the integer seeds handed to load_random_questions
SeedValues == {1, 2}

Seeds == {NoSeed} \cup {IntSeed(n) : n \in SeedValues}

\* the lists of qnums a store of SampleQuestions can hold (line 47)
Populations == {SortedQnums(S) : S \in SUBSET {q.qnum : q \in SampleQuestions}}

\* the counts handed to load_random_questions in a round
RoundCounts == {1, 2}

\* the samples a round can ask for
SampleKeys == UNION {{<<p, k>> : k \in RoundCounts \cap 0..Len(p)} : p \in Populations}

\* random.Random(seed) for one integer seed: a fixed sample for each
\* population and k.  Which one is not modelled: every assignment is a
\* generator
Generators ==
    {g \in [SampleKeys -> UNION {Samples(key[1], key[2]) : key \in SampleKeys}] :
        \A key \in SampleKeys : g[key] \in Samples(key[1], key[2])}

\* the answers typed in a round
RoundAnswers == {Chars("a")}

\* no store yet, or the empty store init_db makes
RoundInit ==
    /\ db \in {NoDatabase, init_db(NoDatabase)}
    /\ latest = {}
    /\ rng \in [SeedValues -> Generators]
    /\ op = "none"
    /\ requested = 0
    /\ raised = "none"
    /\ message = NoMessage
    /\ loaded = <<>>
    /\ seed = NoSeed
    /\ chosen = <<>>
    /\ sampled = {}
    /\ replay = FALSE
    /\ GuiIdle
    /\ paras = <<>>
    /\ questions = <<>>
    /\ build_pc = "start"
    /\ user_answer = EmptyStr
    /\ qa = QA(EmptyStr, EmptyStr, None, None)
    /\ case_sensitive = FALSE
    /\ grader = "none"
    /\ verdict = FALSE
    /\ error = "none"

\* a build pass between rounds: one question is upserted
UpsertOne == Upsert({<<q>> : q \in SampleQuestions})

\* GUI/src/quiz_core.py load_random_questions with any seed
SeededLoadRandomQuestions == Load("load_random_questions", "ValueError", RoundCounts, Seeds)

\* gui_app.py lines 688-691 (quiz.py lines 128-134 with its own grader):
\* one of the loaded records is graded against a typed answer
GradeLoaded ==
    \E i \in 1..Len(loaded), u \in RoundAnswers, cs \in BOOLEAN :
        LET result == is_correct(u, loaded[i], cs)
        IN  /\ user_answer' = u
            /\ qa' = loaded[i]
            /\ case_sensitive' = cs
            /\ grader' = "core"
            /\ verdict' = result.val
            /\ error' = result.exc
            /\ UNCHANGED <<paras, questions, build_pc>>
            /\ UNCHANGED store_vars
            /\ UNCHANGED gui_vars

RoundNext ==
    \/ UpsertOne
    \/ SeededLoadRandomQuestions
    \/ GradeLoaded

RoundSpec == RoundInit /\ [][RoundNext]_vars

(***************************************************************************)
(* Calls of extract_mc_options on question texts of up to MaxText          *)
(* characters                                                              *)
(***************************************************************************)
MaxText == 5

TextKeys == {"A", "b", "-", " ", "\n"}

TypedTexts == UNION {[1..n -> TextKeys] : n \in 0..MaxText}

SampleTexts ==
    { None,
      Chars("Pick one\nA - BOOTP\nB - SMB\nC - DHCP"),
      Chars("  A  ") \o <<EnDash>> \o Chars("  x y  "),
      Chars("A ") \o <<ACircumflex>> \o Chars(" x"),
      Chars("A ") \o <<EuroSign, LeftQuote>> \o Chars(" x"),
      Chars("AB - x\na - x\nA\t-\tx\r\nB -- y\rC - \t\n\nD -"),
      Chars("A - B - c\n") }

QuestionTexts == TypedTexts \cup SampleTexts

ExtractInit ==
    /\ qa \in {QA(t, EmptyStr, None, None) : t \in QuestionTexts}
    /\ user_answer = EmptyStr
    /\ case_sensitive = FALSE
    /\ grader = "none"
    /\ verdict = FALSE
    /\ error = "none"
    /\ paras = <<>>
    /\ questions = <<>>
    /\ build_pc = "start"
    /\ StoreIdle
    /\ GuiIdle

\* one call of extract_mc_options; its result is kept for the claims
Extract(name, result) ==
    /\ extractor = "none"
    /\ extractor' = name
    /\ options' = result
    /\ UNCHANGED <<user_answer, qa, case_sensitive, grader, verdict, error,
                   paras, questions, build_pc>>
    /\ UNCHANGED store_vars
    /\ UNCHANGED window_vars

\* GUI/src/quiz_core.py extract_mc_options
ExtractMcOptions == Extract("core", extract_mc_options(qa.question_text))

\* GUI/quiz_core.py extract_mc_options
GuiExtractMcOptions == Extract("gui", gui_extract_mc_options(qa.question_text))

ExtractNext == ExtractMcOptions \/ GuiExtractMcOptions

ExtractSpec == ExtractInit /\ [][ExtractNext]_vars

(***************************************************************************)
(* Rounds in the window of GUI/src/gui_app.py: the user starts a round,    *)
(* chooses options or types, submits, quits; each submission starts a      *)
(* single-shot timer whose callback runs when the event loop reaches it,   *)
(* whatever the user did in between                                        *)
(***************************************************************************)
\* the single-shot timers that can be pending at once: the submissions the
\* user fits into one delay of _advance_delay_ms
MaxTimers == 2

\* the rows of the store: a single-choice question with a stored letter, a
\* multi-select question and a fill-in question
WindowQuestions ==
    << Question(1, Chars("Pick one\nA - a\nB - b"),
                Chars(" the correct answer is a (A)"), Chars("a"), Chars("A")),
       Question(2, Chars("Select two\nA - a\nB - b"),
                Chars(" the correct answer is a, b"), Chars("a, b"), None),
       Question(3, Chars("Name it"),
                Chars(" the correct answer is a"), Chars("a"), None) >>

\* the counts of the spin box of the start page the user picks: one more
\* than the store holds among them
WindowCounts == {1, 2, 4}

\* what the user types into the line edit
WindowTexts == {EmptyStr, Chars("a ")}

\* the digit keys with a shortcut (lines 242-243)
DigitKeys == 1..9

WindowInit ==
    /\ db = [file |-> TRUE, table |-> TRUE, rows |-> WindowQuestions]
    /\ latest = {}
    /\ rng = <<>>
    /\ op = "none"
    /\ requested = 0
    /\ raised = "none"
    /\ message = NoMessage
    /\ loaded = <<>>
    /\ seed = NoSeed
    /\ chosen = <<>>
    /\ sampled = {}
    /\ replay = FALSE
    /\ GuiIdle
    /\ paras = <<>>
    /\ questions = <<>>
    /\ build_pc = "start"
    /\ user_answer = EmptyStr
    /\ qa = QA(EmptyStr, EmptyStr, None, None)
    /\ case_sensitive = FALSE
    /\ grader = "none"
    /\ verdict = FALSE
    /\ error = "none"

grading_vars == <<user_answer, qa, case_sensitive, grader, verdict, error>>

\* lines 268-350, set_question: new widgets for the question, nothing
\* checked or typed, Submit disabled until there is an answer
set_question(q) ==
    LET opts == extract_mc_options(q.question_text)
        mode == IF opts # <<>>
                THEN (IF is_multi_select_question(q.question_text)
                      THEN "mc_multi" ELSE "mc")
                ELSE "text"
    IN  /\ _current_qa' = q
        /\ options' = opts
        /\ extractor' = "core"
        /\ _mode' = mode
        /\ checked' = {}
        /\ typed' = EmptyStr
        /\ widgets_enabled' = TRUE
        /\ submit_enabled' = update_submit_enabled(mode, {}, EmptyStr)

question_vars == <<_current_qa, options, extractor, _mode, checked, typed,
                   widgets_enabled, submit_enabled>>

\* lines 739-743, back_to_start; the timers still pending are those of the
\* round it ends
back_to_start ==
    /\ _qas' = <<>>
    /\ _results' = <<>>
    /\ _idx' = 0
    /\ page' = "start"
    /\ timers' = [i \in 1..Len(timers) |-> [timers[i] EXCEPT !.stale = TRUE]]
    /\ slot_error' = "none"
    /\ stale_ran' = FALSE
    /\ UNCHANGED <<_case_sensitive, round_list>>
    /\ UNCHANGED question_vars
    /\ UNCHANGED grading_vars
    /\ UNCHANGED store_vars
    /\ UNCHANGED <<paras, questions, build_pc>>

\* lines 651-681, start_round, from the Start button of the start page; a
\* load that raises ends in a message box and changes nothing
StartRound ==
    /\ page = "start"
    /\ \E count \in WindowCounts, cs \in BOOLEAN :
         \E draw \in (IF count <= Len(db.rows)
                       THEN sample(rng, NoSeed, qnums(db), count) ELSE {<<>>}) :
            LET out == load_random_questions(db, count, draw, "ValueError")
            IN  /\ IF out.raised # "none"
                   THEN /\ slot_error' = "none"
                        /\ stale_ran' = FALSE
                        /\ UNCHANGED <<page, _qas, _idx, _results, _case_sensitive,
                                       round_list, timers>>
                        /\ UNCHANGED question_vars
                   ELSE /\ _qas' = out.result
                        /\ _idx' = 0
                        /\ _case_sensitive' = cs
                        /\ _results' = <<>>
                        /\ round_list' = <<>>
                        /\ page' = "quiz"
                        /\ set_question(out.result[1])
                        /\ slot_error' = "none"
                        /\ stale_ran' = FALSE
                        /\ UNCHANGED timers
    /\ UNCHANGED store_vars
    /\ UNCHANGED grading_vars
    /\ UNCHANGED <<paras, questions, build_pc>>

\* position i of the options is chosen: the widget emits toggled, which
\* runs _update_submit_enabled, when its checked state changes
choose_option(i) ==
    LET chk == select_option(_mode, Len(options), checked, i)
    IN  /\ checked' = chk
        /\ submit_enabled' = IF chk # checked
                             THEN update_submit_enabled(_mode, chk, typed)
                             ELSE submit_enabled
        /\ slot_error' = "none"
        /\ stale_ran' = FALSE
        /\ UNCHANGED <<page, _qas, _idx, _results, _case_sensitive, round_list,
                       _current_qa, _mode, typed, widgets_enabled, timers,
                       options, extractor>>
        /\ UNCHANGED grading_vars
        /\ UNCHANGED store_vars
        /\ UNCHANGED <<paras, questions, build_pc>>

\* a click on a radio button or a check box, which takes an enabled widget
ClickOption ==
    /\ page = "quiz"
    /\ widgets_enabled
    /\ \E i \in 1..Len(options) : choose_option(i)

\* lines 242-243 and 352-359: a digit key, a shortcut of the quiz page that
\* calls _select_option_by_index, where setChecked and toggle do not ask
\* whether the widget is enabled
NumberKey ==
    /\ page = "quiz"
    /\ \E i \in DigitKeys : choose_option(i)

\* the user edits the line edit of a fill-in question: textChanged runs
\* _update_submit_enabled
TypeText ==
    /\ page = "quiz"
    /\ _mode = "text"
    /\ widgets_enabled
    /\ \E t \in WindowTexts :
         /\ typed' = t
         /\ submit_enabled' = IF t # typed
                              THEN update_submit_enabled(_mode, checked, t)
                              ELSE submit_enabled
    /\ slot_error' = "none"
    /\ stale_ran' = FALSE
    /\ UNCHANGED <<page, _qas, _idx, _results, _case_sensitive, round_list,
                   _current_qa, _mode, checked, widgets_enabled, timers,
                   options, extractor>>
    /\ UNCHANGED grading_vars
    /\ UNCHANGED store_vars
    /\ UNCHANGED <<paras, questions, build_pc>>

\* the Submit button, the Return and Enter shortcuts and returnPressed of
\* the line edit: _submit_clicked (lines 495-499), which returns when Submit
\* is disabled, then submit_current (lines 687-714)
SubmitClicked ==
    /\ page = "quiz"
    /\ submit_enabled
    /\ Len(timers) < MaxTimers
    /\ LET ua == get_user_answer(_mode, options, checked, typed, _current_qa)
       IN  IF _idx >= Len(_qas)
           THEN /\ slot_error' = "IndexError"
                /\ UNCHANGED <<_results, round_list, widgets_enabled,
                               submit_enabled, timers>>
           ELSE LET q == _qas[_idx + 1]
                    result == is_correct(ua, q, _case_sensitive)
                IN  /\ _results' = Append(_results, [qa |-> q, user_answer |-> ua,
                                                     correct |-> result.val])
                    /\ widgets_enabled' = FALSE
                    /\ submit_enabled' = FALSE
                    /\ round_list' = Append(round_list, [q_index |-> _idx + 1,
                                                         correct |-> result.val])
                    /\ timers' = Append(timers,
                                        [callback |-> IF _idx + 1 >= Len(_qas)
                                                      THEN "finish_round"
                                                      ELSE "_advance",
                                         stale |-> FALSE])
                    /\ slot_error' = "none"
    /\ stale_ran' = FALSE
    /\ UNCHANGED <<page, _qas, _idx, _case_sensitive, _current_qa, _mode,
                   checked, typed, options, extractor>>
    /\ UNCHANGED grading_vars
    /\ UNCHANGED store_vars
    /\ UNCHANGED <<paras, questions, build_pc>>

\* the oldest pending timer runs its callback: _advance (lines 709-711) and
\* with it _show_question (lines 683-685), or finish_round (lines 716-733),
\* which hands _results to the results page and shows it
TimerFires ==
    /\ timers # <<>>
    /\ timers' = Tail(timers)
    /\ stale_ran' = timers[1].stale
    /\ IF timers[1].callback = "_advance"
       THEN /\ _idx' = _idx + 1
            /\ IF _idx + 1 < Len(_qas)
               THEN /\ set_question(_qas[_idx + 2])
                    /\ slot_error' = "none"
               ELSE /\ slot_error' = "IndexError"
                    /\ UNCHANGED question_vars
            /\ UNCHANGED page
       ELSE /\ page' = "results"
            /\ slot_error' = "none"
            /\ UNCHANGED _idx
            /\ UNCHANGED question_vars
    /\ UNCHANGED <<_qas, _results, _case_sensitive, round_list>>
    /\ UNCHANGED grading_vars
    /\ UNCHANGED store_vars
    /\ UNCHANGED <<paras, questions, build_pc>>

\* lines 735-737: Quit Round, answered with Yes
QuitRound ==
    /\ page = "quiz"
    /\ back_to_start

\* the button of the results page, connected to back_to_start (line 638)
BackToStart ==
    /\ page = "results"
    /\ back_to_start

WindowNext ==
    \/ StartRound
    \/ ClickOption
    \/ NumberKey
    \/ TypeText
    \/ SubmitClicked
    \/ TimerFires
    \/ QuitRound
    \/ BackToStart

WindowSpec == WindowInit /\ [][WindowNext]_vars

(***************************************************************************)
(* The grading claims.  They are stated on the result of a grading call    *)
(* and in the vocabulary of the specification, not of the code above.      *)
(***************************************************************************)
\* the answer is a str (the interfaces hand is_correct the text of an input)
StrAnswer == user_answer # None

Blank(s) == \A i \in 1..Len(s) : IsSpace(s[i])

OptionSet == qa.answer_option # None /\ qa.answer_option # EmptyStr
ValueSet == qa.answer_value # None /\ qa.answer_value # EmptyStr

\* the comparison form of a string under the active case policy
Policy(s) == IF case_sensitive THEN strip(s) ELSE normalize(s)

\* the canonical letter comparison of section 4.5 step 2
LetterEqual == upper(strip(user_answer)) = upper(strip(qa.answer_option))

OrderPhrase ==
    LET q == lower(OrEmpty(qa.question_text))
    IN  Contains(q, alphabetical_order) \/ Contains(q, reverse_alphabetical)

HasComma(s) == \E i \in 1..Len(s) : s[i] = ","

\* the non-empty trimmed pieces of s between its commas, under the case policy
PieceSet(s) ==
    { Policy(SubSeq(s, i, j)) :
        <<i, j>> \in { ij \in (1..Len(s)) \X (1..Len(s)) :
                        /\ ij[1] <= ij[2]
                        /\ ij[1] = 1 \/ s[ij[1] - 1] = ","
                        /\ ij[2] = Len(s) \/ s[ij[2] + 1] = ","
                        /\ \A k \in ij[1]..ij[2] : s[k] # "," } } \ {EmptyStr}

PieceSeq(s) ==
    LET pieces == _split_csv_list(s)
    IN  [i \in DOMAIN pieces |-> Policy(pieces[i])]

SamePieces == PieceSet(user_answer) = PieceSet(qa.answer_value)

\* u occurs in t delimited by word boundaries on both sides
WholeWordIn(u, t) ==
    \E p \in 0..(Len(t) - Len(u)) :
        /\ SubSeq(t, p + 1, p + Len(u)) = u
        /\ WordBoundary(t, p)
        /\ WordBoundary(t, p + Len(u))

\* the fallback of section 4.5 step 4 accepts the answer
FallbackAccepts ==
    /\ Len(Policy(user_answer)) >= 3
    /\ WholeWordIn(Policy(user_answer),
                   IF case_sensitive THEN OrEmpty(qa.answer_text)
                   ELSE normalize(qa.answer_text))

\* the comma-separated set comparison of section 4.5 step 3 accepts the answer
SetAccepts ==
    /\ ~OrderPhrase
    /\ HasComma(qa.answer_value)
    /\ HasComma(user_answer)
    /\ SamePieces

\* the whole-string comparison of section 4.5 step 3 accepts the answer
WholeAccepts == Policy(user_answer) = Policy(qa.answer_value)

\* the answer_value comparison of section 4.5 step 3 succeeds
ValueAccepts == ValueSet /\ (SetAccepts \/ WholeAccepts)

\* the answer differs from answer_value in letter case or whitespace only
DiffersInCaseOrSpace ==
    /\ strip(user_answer) # strip(qa.answer_value)
    /\ normalize(user_answer) = normalize(qa.answer_value)

\* C1 as stated: with answer_option set, is_correct of GUI/src/quiz_core.py
\* returns true iff the trimmed, uppercased answer equals the trimmed,
\* uppercased answer_option.
C1_LetterIff ==
    (grader = "core" /\ StrAnswer /\ OptionSet) => (verdict = LetterEqual)

\* C1 (amended): with answer_option set, is_correct of GUI/src/quiz_core.py
\* returns true iff the answer is not blank and its trimmed, uppercased form
\* equals the trimmed, uppercased answer_option; answer_value, answer_text
\* and question_text have no part in the verdict.
C1_LetterOnly ==
    (grader = "core" /\ StrAnswer /\ OptionSet)
        => (verdict = (~Blank(user_answer) /\ LetterEqual))

C1_Witness ==
    /\ grader = "core"
    /\ user_answer = Chars("DHCP")
    /\ qa.answer_option = Chars("C")
    /\ qa.answer_value = Chars("DHCP")
    /\ verdict = FALSE

\* C2: an empty or whitespace-only answer is graded incorrect by each of the
\* three is_correct implementations, whatever the record holds.
C2_BlankIncorrect ==
    (grader # "none" /\ StrAnswer /\ Blank(user_answer))
        => (verdict = FALSE /\ error = "none")

C2_Witness ==
    /\ grader = "cli"
    /\ user_answer = <<" ", " ">>
    /\ qa.answer_text = Chars("A  b,a")
    /\ verdict = FALSE

\* C3: answer_option unset, answer_value with a comma, no ordering phrase in
\* the question: an answer with a comma whose pieces form the same set as the
\* pieces of answer_value is graded correct.
C3_SetComparison ==
    (/\ grader = "core" /\ StrAnswer
     /\ ~OptionSet /\ ValueSet
     /\ HasComma(qa.answer_value) /\ ~OrderPhrase
     /\ HasComma(user_answer) /\ SamePieces)
        => (verdict = TRUE)

C3_Witness ==
    /\ grader = "core"
    /\ case_sensitive
    /\ user_answer = Chars("b,a")
    /\ qa.answer_value = Chars("a,a,b")
    /\ verdict = TRUE

\* the answer lists the pieces of answer_value in a different order
ReorderedPieces ==
    /\ HasComma(user_answer) /\ HasComma(qa.answer_value)
    /\ SamePieces
    /\ PieceSeq(user_answer) # PieceSeq(qa.answer_value)

\* C4 as stated: when the question requires ordering, an answer listing the
\* pieces of answer_value in a different order is graded incorrect, and the
\* answer in the stored order is graded correct.
C4_ReorderedIncorrect ==
    (grader = "core" /\ StrAnswer /\ ~OptionSet /\ ValueSet /\ OrderPhrase)
        => /\ ReorderedPieces => (verdict = FALSE)
           /\ (~Blank(user_answer) /\ WholeAccepts) => (verdict = TRUE)

\* C4 (amended): when the question requires ordering the set comparison is
\* not applied: an answer listing the pieces of answer_value in a different
\* order is graded correct only when the fallback finds it in answer_text
\* (3 or more characters, whole-word phrase) and incorrect otherwise; the
\* answer in the stored order is graded correct.
C4_OrderRequired ==
    (grader = "core" /\ StrAnswer /\ ~OptionSet /\ ValueSet /\ OrderPhrase)
        => /\ ReorderedPieces => (verdict = FallbackAccepts)
           /\ (~Blank(user_answer) /\ WholeAccepts) => (verdict = TRUE)

C4_Witness ==
    /\ grader = "core"
    /\ ~case_sensitive
    /\ OrderPhrase
    /\ user_answer = Chars("red, blue")
    /\ qa.answer_value = Chars("Blue, Red")
    /\ qa.answer_text = Chars("the correct answer is Blue, Red")
    /\ verdict = FALSE

\* C5 as stated: answer_option unset, answer_value set: an answer differing
\* from answer_value only in letter case or whitespace is graded correct when
\* case_sensitive is false and incorrect when it is true; an answer equal to
\* answer_value after trimming is graded correct in both modes.
C5_CasePolicyStrict ==
    (grader = "core" /\ StrAnswer /\ ~Blank(user_answer) /\ ~OptionSet /\ ValueSet)
        => /\ DiffersInCaseOrSpace => (verdict = ~case_sensitive)
           /\ strip(user_answer) = strip(qa.answer_value) => (verdict = TRUE)

\* C5 (amended): answer_option unset, answer_value set, answer not blank: an
\* answer differing from answer_value only in letter case or whitespace is
\* graded correct when case_sensitive is false; when it is true the whole
\* strings do not match and the answer is graded incorrect unless the set
\* comparison or the answer_text fallback accepts it; an answer equal to
\* answer_value after trimming is graded correct in both modes.
C5_CasePolicy ==
    (grader = "core" /\ StrAnswer /\ ~Blank(user_answer) /\ ~OptionSet /\ ValueSet)
        => /\ (DiffersInCaseOrSpace /\ ~case_sensitive) => (verdict = TRUE)
           /\ (DiffersInCaseOrSpace /\ case_sensitive)
                => (~WholeAccepts /\ verdict = (SetAccepts \/ FallbackAccepts))
           /\ strip(user_answer) = strip(qa.answer_value) => (verdict = TRUE)

C5_Witness ==
    /\ grader = "core"
    /\ case_sensitive
    /\ user_answer = Chars("frames")
    /\ qa.answer_value = Chars("Frames")
    /\ qa.answer_text = Chars("the correct answer is Frames")
    /\ verdict = FALSE

\* C6: answer_option unset and the answer_value comparison not successful
\* (answer_value null, or set and not matched): the answer is graded correct
\* iff it has at least 3 characters and occurs in answer_text as a
\* whole-word phrase under the case policy.
C6_FallbackDecides ==
    (grader = "core" /\ StrAnswer /\ ~OptionSet /\ ~ValueAccepts)
        => (verdict = FallbackAccepts)

C6_Witness ==
    /\ grader = "core"
    /\ OrderPhrase
    /\ user_answer = Chars("b,a")
    /\ qa.answer_value = Chars("a,b")
    /\ qa.answer_text = Chars("the correct answer is a,b (not b,a)")
    /\ verdict = TRUE

\* C7: in the fallback path an answer of fewer than 3 characters is graded
\* incorrect even when it is a whole word of answer_text, and an answer of
\* exactly 3 characters that is a whole word of answer_text is graded correct.
C7_LengthGuard ==
    LET u == Policy(user_answer)
        t == IF case_sensitive THEN OrEmpty(qa.answer_text) ELSE normalize(qa.answer_text)
    IN  (grader = "core" /\ StrAnswer /\ ~OptionSet /\ ~ValueAccepts)
            => /\ Len(u) < 3 => (verdict = FALSE)
               /\ (Len(u) = 3 /\ WholeWordIn(u, t)) => (verdict = TRUE)

C7_Witness ==
    /\ grader = "core"
    /\ user_answer = Chars("ab")
    /\ qa.answer_value = None
    /\ qa.answer_text = Chars("ab a")
    /\ verdict = FALSE

\* C8: is_correct returns a boolean and raises nothing for every str answer
\* (the empty one included) and every record (null answer_value, null
\* answer_option and empty answer_text included).
C8_NeverRaises ==
    (grader # "none" /\ StrAnswer /\ qa.answer_text # None)
        => (error = "none" /\ verdict \in BOOLEAN)

C8_Witness ==
    /\ grader = "cli"
    /\ user_answer = EmptyStr
    /\ qa.answer_value = None
    /\ qa.answer_option = None
    /\ qa.answer_text = EmptyStr
    /\ error = "none"
    /\ verdict = FALSE

\* C9: with answer_option set, is_correct of quiz.py and of GUI/quiz_core.py
\* give the verdict of the letter-only rule: correct for the matching letter,
\* incorrect for anything else.
C9_OlderGradersLetterOnly ==
    (grader \in {"cli", "gui"} /\ StrAnswer /\ qa.answer_text # None /\ OptionSet)
        => (verdict = (~Blank(user_answer) /\ LetterEqual))

(***************************************************************************)
(* The parsing claims                                                      *)
(***************************************************************************)
IsQuestionMarker(line) == Q_MARKER_RE(strip(line)) # None

\* the indices of the question-marker lines of the document
MarkerLines == {i \in 1..Len(paras) : IsQuestionMarker(paras[i])}

\* the block that starts at marker line i, ml being the marker lines: up to
\* the line before the next marker line, or to the end of the document
BlockAt(ml, i) ==
    LET later == {j \in ml : j > i}
        stop == IF later = {} THEN Len(paras) + 1
                ELSE CHOOSE j \in later : \A h \in later : j <= h
    IN  SubSeq(paras, i, stop - 1)

HasAnswerMarker(block) == \E j \in 1..Len(block) : Contains(block[j], marker)

\* the marker lines of the blocks that hold an answer-marker line
WellFormed(ml) == {i \in ml : HasAnswerMarker(BlockAt(ml, i))}

\* the k-th smallest element of a set of line indices
Nth(S, k) == CHOOSE i \in S : Cardinality({j \in S : j <= i}) = k

\* C10: parse_docx emits one record per block holding an answer-marker line
\* and none for the other blocks, in document order, each with the qnum of
\* its own marker line and equal to the record of its block parsed on its
\* own: a block without an answer marker changes no record around it.
C10_OneRecordPerWellFormedBlock ==
    build_pc = "parsed"
        => LET ml == MarkerLines
               wf == WellFormed(ml)
           IN  /\ Len(questions) = Cardinality(wf)
               /\ \A k \in 1..Len(questions) :
                    LET i == Nth(wf, k)
                    IN  /\ questions[k].qnum = int(Q_MARKER_RE(strip(paras[i])))
                        /\ questions[k] = parse_docx(BlockAt(ml, i))[1]

C10_Witness ==
    /\ build_pc = "parsed"
    /\ paras = << Chars("Question 1 of 3"),
                  Chars("[+] Answer> the correct answer is a (A)"),
                  Chars("question  02 OF 3 "),
                  Chars("Question 3 of 3"),
                  Chars("[+] Answer> the correct answer is a (A)") >>
    /\ Len(questions) = 2
    /\ questions[1].qnum = 1
    /\ questions[2].qnum = 3

\* the input of the parser: the paragraphs without their trailing whitespace
Lines == [i \in 1..Len(paras) |-> rstrip(paras[i])]

\* the line after the last line of the block that starts at marker line i
BlockStop(ml, i) ==
    LET later == {j \in ml : j > i}
    IN  IF later = {} THEN Len(paras) + 1
        ELSE CHOOSE j \in later : \A h \in later : j <= h

\* the first line of that block that holds the answer marker
AnswerLineOf(ml, i) ==
    CHOOSE j \in i..(BlockStop(ml, i) - 1) :
        /\ Contains(Lines[j], marker)
        /\ \A h \in i..(j - 1) : ~Contains(Lines[h], marker)

\* the lines strictly between the question-marker line and the answer-marker
\* line
QuestionSegment(ml, i) == SubSeq(Lines, i + 1, AnswerLineOf(ml, i) - 1)

\* what follows the first answer marker on the answer-marker line
Fragment(ml, i) ==
    LET l == Lines[AnswerLineOf(ml, i)]
    IN  SubSeq(l, Find(l, marker) + Len(marker) + 1, Len(l))

\* the lines of the block after the answer-marker line
Following(ml, i) == SubSeq(Lines, AnswerLineOf(ml, i) + 1, BlockStop(ml, i) - 1)

\* a line that, trimmed, is made of 11 or more "=" and nothing else
IsTerminator(line) ==
    LET t == strip(line)
    IN  Len(t) >= 11 /\ \A c \in 1..Len(t) : t[c] = "="

\* the lines of seg before its first terminator line
BeforeTerminator(seg) ==
    LET n == Cardinality({j \in 1..Len(seg) :
                            \A h \in 1..j : ~IsTerminator(seg[h])})
    IN  SubSeq(seg, 1, n)

\* the answer segment: the fragment, when there is one, then the following
\* lines, up to the terminator
AnswerSegment(ml, i) ==
    BeforeTerminator((IF Fragment(ml, i) = EmptyStr THEN <<>> ELSE <<Fragment(ml, i)>>)
                        \o Following(ml, i))

IsBlankLine(line) == \A c \in 1..Len(line) : IsSpace(line[c])

\* seg without its trailing blank lines
TrimTrailingBlank(seg) ==
    SubSeq(seg, 1, Cardinality({j \in 1..Len(seg) :
                                  \E h \in j..Len(seg) : ~IsBlankLine(seg[h])}))

\* s without the newline characters it starts with
RECURSIVE DropLeadingNewlines(_)
DropLeadingNewlines(s) ==
    IF s # EmptyStr /\ Head(s) = "\n" THEN DropLeadingNewlines(Tail(s)) ELSE s

IsPrefix(p, s) == Len(p) <= Len(s) /\ SubSeq(s, 1, Len(p)) = p

\* the text of the lines that follow the answer-marker line, as stored
FollowingText(ml, i) == Join(TrimTrailingBlank(BeforeTerminator(Following(ml, i))))

\* C12: a fragment after the answer marker is the first line of the answer,
\* followed by the lines after the marker line in order; a marker line that
\* ends with the marker contributes no line; the marker line up to and
\* including the marker is in neither text.  (A fragment that is itself a
\* terminator line ends the answer before its first line: C13.)
C12_FragmentIsFirstAnswerLine ==
    build_pc = "parsed"
        => LET ml == MarkerLines
               wf == WellFormed(ml)
           IN  \A k \in 1..Len(questions) :
                 LET i == Nth(wf, k)
                     frag == Fragment(ml, i)
                     rest == FollowingText(ml, i)
                     answer == questions[k].answer_text
                 IN  /\ ~Contains(questions[k].question_text, marker)
                     /\ frag = EmptyStr => answer = DropLeadingNewlines(rest)
                     /\ (frag # EmptyStr /\ ~IsTerminator(frag))
                          => /\ IsPrefix(DropLeadingNewlines(frag), answer)
                             /\ answer = DropLeadingNewlines(
                                    frag \o (IF TrimTrailingBlank(BeforeTerminator(
                                                    Following(ml, i))) = <<>>
                                             THEN EmptyStr ELSE <<"\n">> \o rest))

\* text on both sides of the marker, and lines after the marker line
C12_Witness ==
    /\ build_pc = "parsed"
    /\ paras = << Chars("Question 7 of 9"), Chars("What is it?"), Chars("A - a"),
                  Chars(" B - b"), Chars("see [+] Answer>see below"),
                  Chars("more"), Chars("=========="), Chars("tail ") >>
    /\ Len(questions) = 1
    /\ questions[1].question_text = Chars("What is it?\nA - a\n B - b")
    /\ questions[1].answer_text = Chars("see below\nmore\n==========\ntail")

\* the fragment, when there is one, and the lines after the marker line
RawAnswerLines(ml, i) ==
    (IF Fragment(ml, i) = EmptyStr THEN <<>> ELSE <<Fragment(ml, i)>>) \o Following(ml, i)

\* the text, as stored, of the first n of the lines
StoredText(lines, n) == DropLeadingNewlines(Join(TrimTrailingBlank(SubSeq(lines, 1, n))))

HasPhrase(line) ==
    \E p \in 0..(Len(line) - Len(phrase)) :
        lower(SubSeq(line, p + 1, p + Len(phrase))) = phrase

\* C13: when a line of the answer segment is, trimmed, made of more than 10
\* "=" and nothing else, answer_text holds the lines before the first such
\* line only and no derived key comes from a later line; without such a line
\* every line is content, lines of 10 or fewer "=" included.
C13_SeparatorEndsAnswer ==
    build_pc = "parsed"
        => LET ml == MarkerLines
               wf == WellFormed(ml)
           IN  \A k \in 1..Len(questions) :
                 LET raw == RawAnswerLines(ml, Nth(wf, k))
                     seps == {j \in 1..Len(raw) : IsTerminator(raw[j])}
                     first == CHOOSE j \in seps : \A h \in seps : j <= h
                 IN  IF seps = {}
                     THEN questions[k].answer_text = StoredText(raw, Len(raw))
                     ELSE /\ questions[k].answer_text = StoredText(raw, first - 1)
                          /\ (\A j \in 1..(first - 1) : ~HasPhrase(raw[j]))
                                => /\ questions[k].answer_value = None
                                   /\ questions[k].answer_option = None

\* a separator of 12 "=" with an answer phrase after it
C13_Witness ==
    /\ build_pc = "parsed"
    /\ paras = << Chars("Question 7 of 9"), Chars("What is it?"), Chars("A - a"),
                  Chars(" B - b"), Chars("[+] Answer>"),
                  Chars("note"), Chars("  ============"),
                  Chars("the correct answer is Late (Z)") >>
    /\ Len(questions) = 1
    /\ questions[1].answer_text = Chars("note")
    /\ questions[1].answer_value = None
    /\ questions[1].answer_option = None

(***************************************************************************)
(* The derived keys.  A line qualifies when its trimmed text holds the     *)
(* phrase followed by whitespace and then the rest of the line (C17); rest *)
(* is what follows that whitespace, trimmed.                               *)
(***************************************************************************)
\* the offsets in t of the phrase followed by whitespace, with no line break
\* in t after that whitespace
PhraseThenSpace(t) ==
    {p \in 0..(Len(t) - Len(phrase) - 1) :
        /\ lower(SubSeq(t, p + 1, p + Len(phrase))) = phrase
        /\ IsSpace(t[p + Len(phrase) + 1])
        /\ \A c \in (p + Len(phrase) + 1)..Len(t) :
                t[c] = "\n" => \A d \in (p + Len(phrase) + 1)..c : IsSpace(t[d])}

Qualifies(line) == PhraseThenSpace(strip(line)) # {}

\* the text after the first such phrase of a qualifying line, trimmed
RestOf(line) ==
    LET t == strip(line)
        p == CHOOSE h \in PhraseThenSpace(t) : \A g \in PhraseThenSpace(t) : h <= g
    IN  strip(SubSeq(t, p + Len(phrase) + 1, Len(t)))

\* rest is "<value> (<L>)": it ends with whitespace, "(", one letter A-Z, ")"
LetterForm(rest) ==
    /\ Len(rest) >= 4
    /\ rest[Len(rest)] = ")"
    /\ rest[Len(rest) - 1] \in UpperSet
    /\ rest[Len(rest) - 2] = "("
    /\ IsSpace(rest[Len(rest) - 3])

\* the places of rest where whitespace is followed by "("
ParenOpens(rest) == {p \in 1..(Len(rest) - 2) : IsSpace(rest[p]) /\ rest[p + 1] = "("}

\* rest is "<left> (<right>)": it ends with ")" and holds whitespace then "("
ParenForm(rest) == rest # EmptyStr /\ rest[Len(rest)] = ")" /\ ParenOpens(rest) # {}

\* left and right of the last such parenthesis, trimmed
LeftOf(rest) ==
    strip(SubSeq(rest, 1, (CHOOSE p \in ParenOpens(rest) :
                              \A h \in ParenOpens(rest) : h <= p) - 1))

RightOf(rest) ==
    strip(SubSeq(rest, (CHOOSE p \in ParenOpens(rest) :
                           \A h \in ParenOpens(rest) : h <= p) + 2, Len(rest) - 1))

\* the indices of the qualifying lines of the answer segment of a block
QualifyingLines(seg) == {j \in 1..Len(seg) : Qualifies(seg[j])}

FirstOf(S) == CHOOSE j \in S : \A h \in S : j <= h

\* C15: when rest is "<value> (<L>)" with L one uppercase letter, the record
\* has answer_value = value, trimmed, and answer_option = L; in every other
\* case answer_option is unset.
C15_LetterParenthetical ==
    build_pc = "parsed"
        => LET ml == MarkerLines
               wf == WellFormed(ml)
           IN  \A k \in 1..Len(questions) :
                 LET seg == AnswerSegment(ml, Nth(wf, k))
                     qs == QualifyingLines(seg)
                     rest == RestOf(seg[FirstOf(qs)])
                 IN  IF qs # {} /\ LetterForm(rest)
                     THEN /\ questions[k].answer_value
                                = strip(SubSeq(rest, 1, Len(rest) - 3))
                          /\ questions[k].answer_option = <<rest[Len(rest) - 1]>>
                     ELSE questions[k].answer_option = None

\* the phrase in capitals, two parentheticals, the last one a letter
C15_Witness ==
    /\ build_pc = "parsed"
    /\ paras = << Chars("Question 7 of 9"),
                  Chars("[+] Answer>   The Correct Answer Is  a (b) (D) ") >>
    /\ Len(questions) = 1
    /\ questions[1].answer_value = Chars("a (b)")
    /\ questions[1].answer_option = Chars("D")

\* C16: when rest does not end in a one-uppercase-letter parenthetical,
\* answer_option is unset and answer_value is: for rest "<left> (<right>)",
\* right when right equals left ignoring case and left otherwise; for a rest
\* without parenthetical, rest.
C16_GeneralParenthetical ==
    build_pc = "parsed"
        => LET ml == MarkerLines
               wf == WellFormed(ml)
           IN  \A k \in 1..Len(questions) :
                 LET seg == AnswerSegment(ml, Nth(wf, k))
                     qs == QualifyingLines(seg)
                     rest == RestOf(seg[FirstOf(qs)])
                 IN  (qs # {} /\ ~LetterForm(rest))
                        => /\ questions[k].answer_option = None
                           /\ questions[k].answer_value =
                                IF ParenForm(rest)
                                THEN IF lower(RightOf(rest)) = lower(LeftOf(rest))
                                     THEN RightOf(rest) ELSE LeftOf(rest)
                                ELSE rest

\* right equals left but for its case: the value is right
C16_Witness ==
    /\ build_pc = "parsed"
    /\ paras = << Chars("Question 7 of 9"),
                  Chars("[+] Answer> the correct answer is Hub Port (hub port)") >>
    /\ Len(questions) = 1
    /\ questions[1].answer_value = Chars("hub port")
    /\ questions[1].answer_option = None

\* the keys the three rules give for a rest
KeysOfRest(rest) ==
    IF LetterForm(rest)
    THEN <<strip(SubSeq(rest, 1, Len(rest) - 3)), <<rest[Len(rest) - 1]>>>>
    ELSE IF ParenForm(rest)
    THEN <<IF lower(RightOf(rest)) = lower(LeftOf(rest))
           THEN RightOf(rest) ELSE LeftOf(rest), None>>
    ELSE <<rest, None>>

\* the text after the first occurrence of the phrase in the trimmed line
\* (the line holds the phrase), trimmed
AfterPhrase(line) ==
    LET t == strip(line)
        at == {p \in 0..(Len(t) - Len(phrase)) :
                 lower(SubSeq(t, p + 1, p + Len(phrase))) = phrase}
    IN  strip(SubSeq(t, FirstOf(at) + Len(phrase) + 1, Len(t)))

\* C17 as stated: the keys come from the first line of the answer segment
\* whose trimmed text holds the phrase, and are unset when there is none.
C17_FirstLineWithPhrase ==
    build_pc = "parsed"
        => LET ml == MarkerLines
               wf == WellFormed(ml)
           IN  \A k \in 1..Len(questions) :
                 LET seg == AnswerSegment(ml, Nth(wf, k))
                     hs == {j \in 1..Len(seg) : HasPhrase(strip(seg[j]))}
                     keys == <<questions[k].answer_value, questions[k].answer_option>>
                 IN  keys = IF hs = {} THEN <<None, None>>
                            ELSE KeysOfRest(AfterPhrase(seg[FirstOf(hs)]))

\* C17, amended: the keys come from the first line of the answer segment
\* whose trimmed text holds the phrase followed by whitespace (with no line
\* break in the text after it); later lines are not used, earlier lines that
\* hold the phrase without whitespace after it are passed over, and when no
\* line qualifies both keys are unset and the record is emitted all the same.
C17_FirstQualifyingLine ==
    build_pc = "parsed"
        => LET ml == MarkerLines
               wf == WellFormed(ml)
           IN  /\ Len(questions) = Cardinality(wf)
               /\ \A k \in 1..Len(questions) :
                     LET seg == AnswerSegment(ml, Nth(wf, k))
                         qs == QualifyingLines(seg)
                         keys == <<questions[k].answer_value,
                                   questions[k].answer_option>>
                     IN  keys = IF qs = {} THEN <<None, None>>
                                ELSE KeysOfRest(RestOf(seg[FirstOf(qs)]))

\* two qualifying lines: the keys are those of the first
C17_Witness ==
    /\ build_pc = "parsed"
    /\ paras = << Chars("Question 7 of 9"),
                  Chars("[+] Answer> the correct answer is Frames (C)"),
                  EmptyStr, Chars("the correct answer is Hub (A)"), EmptyStr,
                  Chars("B - b"), EmptyStr >>
    /\ Len(questions) = 1
    /\ questions[1].answer_value = Chars("Frames")
    /\ questions[1].answer_option = Chars("C")

(***************************************************************************)
(* The build and store claims                                              *)
(***************************************************************************)
\* doc holds no well-formed block: every line with the answer marker that
\* comes after a question-marker line is in a later block
ZeroBlocks(doc) ==
    \A i \in 1..Len(doc) :
        IsQuestionMarker(doc[i])
            => \A j \in (i + 1)..Len(doc) :
                    Contains(doc[j], marker)
                        => \E h \in (i + 1)..(j - 1) : IsQuestionMarker(doc[h])

\* C14: a build of a document that yields no well-formed block exits with
\* an error, and the store is as it was before the build: not created when
\* there was none, not modified when there was one.
C14_EmptyParseFailsBuild ==
    [][(op' = "main" /\ ZeroBlocks(paras'))
            => (raised' = "SystemExit" /\ questions' = <<>> /\ db' = db)]_vars

\* a document with a question marker but no answer marker, and no store yet
C14_Witness ==
    /\ op = "main"
    /\ paras = <<Chars("Question 1 of 3")>>
    /\ raised = "SystemExit"
    /\ message.text = "No questions were parsed. Check the document formatting."
    /\ db = NoDatabase

StoredRecords == {db.rows[i] : i \in 1..Len(db.rows)}

\* C18: the store holds one record per qnum ever upserted, which is the
\* record of the last upsert of that qnum, null derived fields included.
C18_OneRecordPerQnumLastWins ==
    /\ \A i, j \in 1..Len(db.rows) : db.rows[i].qnum = db.rows[j].qnum => i = j
    /\ StoredRecords = latest

\* qnum 1 was upserted with derived keys and then without: the nulls are
\* stored
C18_Witness ==
    /\ op = "upsert_questions"
    /\ raised = "none"
    /\ db.rows = << Question(2, Chars("two?"), Chars("b (B)"), Chars("b"), Chars("B")),
                    Question(1, Chars("one!"), Chars("a"), None, None) >>

\* init_db then upsert_questions
BuildStore(d, batch) == upsert_questions(init_db(d), batch).db

\* C19: for every record set, running init_db and upsert_questions twice
\* leaves the same records in the store as running them once.
C19_UpsertIdempotent ==
    \A batch \in Batches :
        LET once == BuildStore(db, batch)
            twice == BuildStore(once, batch)
        IN  /\ Len(twice.rows) = Len(once.rows)
            /\ {twice.rows[i] : i \in 1..Len(twice.rows)}
                    = {once.rows[i] : i \in 1..Len(once.rows)}

\* a store that holds records, where a record set with a repeated qnum
\* changes the store the first time
C19_Witness ==
    /\ op = "upsert_questions"
    /\ Len(db.rows) = 2
    /\ \E batch \in Batches :
            /\ Len(batch) = 2
            /\ batch[1].qnum = batch[2].qnum
            /\ BuildStore(db, batch) # db

LoadOps == {"load_random_questions", "quiz.load_random_questions"}

\* C20: load_random_questions fails when the store holds no record, for
\* every count, and when count exceeds the number of stored records, with
\* both numbers in the message; it then returns nothing and leaves the
\* table and its records as they were.
C20_LoadRejectsEmptyAndOversized ==
    [][(op' \in LoadOps /\ (Len(db.rows) = 0 \/ requested' > Len(db.rows)))
            => /\ raised' # "none"
               /\ loaded' = <<>>
               /\ db'.rows = db.rows
               /\ db'.table = db.table
               /\ Len(db.rows) > 0
                    => message'.numbers = <<requested', Len(db.rows)>>]_vars

\* three questions requested of a store of two
C20_Witness ==
    /\ op = "load_random_questions"
    /\ requested = 3
    /\ Len(db.rows) = 2
    /\ raised = "ValueError"
    /\ message = Message("Requested {} questions, but database only has {}.", <<3, 2>>)
    /\ loaded = <<>>

(***************************************************************************)
(* The sampling claims                                                     *)
(***************************************************************************)
\* the last operation was a call of load_random_questions that returned
LoadReturned == op \in LoadOps /\ raised = "none"

QnumsOf(list) == [i \in 1..Len(list) |-> list[i].qnum]

\* C21: when it succeeds, load_random_questions(count) returns exactly count
\* records with pairwise distinct qnums, each the record stored under its
\* qnum, in the order in which rng.sample drew the qnums; with count equal to
\* the number of stored records every stored record is returned exactly once.
C21_SampleInDrawOrder ==
    LoadReturned =>
        /\ Len(loaded) = requested
        /\ \A i, j \in 1..Len(loaded) : loaded[i].qnum = loaded[j].qnum => i = j
        /\ \A i \in 1..Len(loaded) :
              /\ loaded[i] \in StoredRecords
              /\ \A r \in StoredRecords : r.qnum = loaded[i].qnum => r = loaded[i]
        /\ QnumsOf(loaded) = chosen
        /\ requested = Len(db.rows) =>
              \A r \in StoredRecords :
                  Cardinality({i \in 1..Len(loaded) : loaded[i] = r}) = 1

\* every stored record was asked for and came back in an order that is neither
\* the order of the rows nor the ascending order of the qnums
C21_Witness ==
    /\ LoadReturned
    /\ requested = 3
    /\ Len(db.rows) = 3
    /\ QnumsOf(loaded) # QnumsOf(db.rows)
    /\ QnumsOf(loaded) # qnums(db)
    /\ QnumsOf(db.rows) # qnums(db)

GradeStep ==
    <<user_answer, qa, case_sensitive, grader, verdict, error>>'
        # <<user_answer, qa, case_sensitive, grader, verdict, error>>

LoadStep == op' \in LoadOps /\ ~GradeStep

\* C23: a quiz round is read-only: a call of load_random_questions or of
\* is_correct leaves every stored record and the number of stored records as
\* they were, and the record handed to is_correct is still the loaded record.
C23_RoundIsReadOnly ==
    [][(LoadStep \/ GradeStep) =>
          /\ db'.rows = db.rows
          /\ GradeStep => loaded' = loaded /\ \E i \in 1..Len(loaded) : qa' = loaded[i]]_vars

\* a stored record was loaded and graded, and the store still holds it
C23_Witness ==
    /\ grader = "core"
    /\ LoadReturned
    /\ Len(db.rows) = 2
    /\ qa \in StoredRecords
    /\ \E i \in 1..Len(loaded) : qa = loaded[i]

(***************************************************************************)
(* The option claims                                                       *)
(***************************************************************************)
\* the pairs a line stands for: optional whitespace, one upper-case letter,
\* optional whitespace, a dash, optional whitespace and a non-empty text,
\* taken without its surrounding whitespace
OptionsOfLine(line) ==
    {<<<<line[p[1]]>>, strip(SubSeq(line, p[2] + 1, Len(line)))>> :
        p \in {p \in (1..Len(line)) \X (1..Len(line)) :
                  /\ p[1] < p[2]
                  /\ \A k \in 1..(p[1] - 1) : IsSpace(line[k])
                  /\ IsUpper(line[p[1]])
                  /\ \A k \in (p[1] + 1)..(p[2] - 1) : IsSpace(line[k])
                  /\ line[p[2]] \in {"-", EnDash}
                  /\ strip(SubSeq(line, p[2] + 1, Len(line))) # EmptyStr}}

\* one pair for each such line, in line order
ExpectedOptions(text) ==
    LET lines == splitlines(IF text = None THEN EmptyStr ELSE text)
        hits == SelectSeq([i \in 1..Len(lines) |-> i],
                          LAMBDA i : OptionsOfLine(lines[i]) # {})
    IN  [h \in 1..Len(hits) |-> CHOOSE o \in OptionsOfLine(lines[hits[h]]) : TRUE]

\* C24: extract_mc_options returns, in line order, one (letter, text) pair
\* for each line made of optional whitespace, one upper-case letter, optional
\* whitespace, a dash, optional whitespace and a non-empty text (the text
\* without its surrounding whitespace), and nothing for any other line.
C24_OptionPerMatchingLine ==
    extractor # "none" => options = ExpectedOptions(qa.question_text)

(***************************************************************************)
(* The grading claims on unvalidated options and on the two case policies  *)
(***************************************************************************)
\* the stored answer_option is a string that is not one letter
OddOption ==
    /\ qa.answer_option # None
    /\ ~(Len(qa.answer_option) = 1 /\ isalpha(qa.answer_option))

\* C25: for a record whose answer_option is not a single alphabetic character
\* (length different from 1, or not a letter), is_correct grades every user
\* answer incorrect.
C25_OddOptionIncorrect ==
    (grader = "core" /\ OddOption) => verdict = FALSE

\* C25 (amended): for a record whose answer_option is set (non-empty) and is
\* not a single alphabetic character, is_correct grades incorrect every user
\* answer whose trimmed, uppercased form differs from the trimmed, uppercased
\* answer_option, so every single-letter answer unless the option trims to
\* that letter; an answer that repeats the stored option is graded correct.
C25_OddOptionNeedsSameText ==
    (grader = "core" /\ StrAnswer /\ OddOption /\ OptionSet) =>
        /\ verdict = (~Blank(user_answer) /\ LetterEqual)
        /\ (Len(strip(user_answer)) = 1 /\ isalpha(strip(user_answer))
                /\ Len(strip(qa.answer_option)) # 1) => verdict = FALSE

\* the option AB was stored and the answer ab was graded correct
C25_Witness ==
    /\ grader = "core"
    /\ qa.answer_option = Chars("AB")
    /\ strip(user_answer) = Chars("Ab")
    /\ verdict = TRUE

C27_OptionIsLetterWithValue ==
    build_pc = "parsed"
        => \A k \in 1..Len(questions) :
              questions[k].answer_option # None
                  => /\ Len(questions[k].answer_option) = 1
                     /\ IsUpper(questions[k].answer_option[1])
                     /\ questions[k].answer_value # None
                     /\ questions[k].answer_value # EmptyStr

\* a record whose option letter follows a parenthetical that is part of the
\* value
C27_Witness ==
    /\ build_pc = "parsed"
    /\ \E k \in 1..Len(questions) :
          /\ questions[k].answer_option = Chars("D")
          /\ questions[k].answer_value = Chars("a (b)")

\* the lines of a text: the pieces between its line breaks
TextLines(s) ==
    LET brk == {0} \cup {p \in 1..Len(s) : s[p] = "\n"} \cup {Len(s) + 1}
    IN  { SubSeq(s, x[1] + 1, x[2] - 1) :
            x \in {y \in brk \X brk :
                     /\ y[1] < y[2]
                     /\ \A c \in brk : ~(y[1] < c /\ c < y[2])} }

\* C28, as stated: when answer_value is set, answer_text has a line that
\* holds the phrase and has answer_value as a substring.
C28_ValueOnPhraseLine ==
    build_pc = "parsed"
        => \A k \in 1..Len(questions) :
              questions[k].answer_value # None
                  => \E l \in TextLines(questions[k].answer_text) :
                        /\ HasPhrase(l)
                        /\ Contains(l, questions[k].answer_value)

\* C28, amended: when answer_value is set, a paragraph of the answer segment
\* (the lines of the block kept before the terminator) holds the phrase, has
\* answer_value as a substring and, with it, the "(letter)" of an
\* answer_option that is set, and its trimmed text is part of answer_text;
\* that paragraph may run over several lines of answer_text, the phrase on
\* one and the value on the next.
C28_ValueInStoredParagraph ==
    build_pc = "parsed"
        => LET ml == MarkerLines
               wf == WellFormed(ml)
           IN  /\ Len(questions) = Cardinality(wf)
               /\ \A k \in 1..Len(questions) :
                     LET seg == AnswerSegment(ml, Nth(wf, k))
                         r == questions[k]
                     IN  /\ r.answer_value = None => r.answer_option = None
                         /\ r.answer_value # None
                              => \E j \in 1..Len(seg) :
                                    /\ HasPhrase(seg[j])
                                    /\ Contains(seg[j], r.answer_value)
                                    /\ Contains(r.answer_text, strip(seg[j]))
                                    /\ Contains(r.answer_text, r.answer_value)
                                    /\ r.answer_option # None
                                         => Contains(seg[j], <<"(">> \o r.answer_option \o <<")">>)

\* the phrase closes one line of answer_text and the value opens the next
C28_Witness ==
    /\ build_pc = "parsed"
    /\ Len(questions) = 1
    /\ questions[1].answer_text = Chars(" the correct answer is\nFrames (C)")
    /\ questions[1].answer_value = Chars("Frames")
    /\ questions[1].answer_option = Chars("C")

(***************************************************************************)
(* The rounds of the window                                                *)
(***************************************************************************)
\* C29: each sampled question is graded exactly once: _results never holds
\* two entries for one question of the round (no submission is accepted
\* while the feedback of the last one is shown), and when the results page
\* is shown _results has as many entries as the round has questions.
C29_GradedExactlyOnce ==
    /\ \A i, j \in 1..Len(_results) :
          _results[i].qa.qnum = _results[j].qa.qnum => i = j
    /\ page = "results" => Len(_results) = Len(_qas)

\* C30: _idx is a position of _qas whenever a question is shown or an answer
\* submitted, so that no handler raises IndexError, and the callback of a
\* timer never runs after back_to_start has ended the round that started it.
C30_IndexInRangeOfOwnRound ==
    /\ page = "quiz" => 0 <= _idx /\ _idx < Len(_qas)
    /\ slot_error = "none"
    /\ ~stale_ran

====
